---- MODULE Spec2Model ----
(***************************************************************************)
(* Wallet-activity classification and multi-feed reconciliation            *)
(* (lib/shared.js: fetchPagedAccount, hydration, buildActivity,            *)
(* buildStats).                                                            *)
(*                                                                         *)
(* Data abstraction.  Strings of the program are modelled by short         *)
(* strings: a transaction hash is "h1", "h2" (and "H1", "H2" for the same  *)
(* hash in upper case, "" for an absent hash); an address is "u" (the      *)
(* queried address, "U" in upper case), "x" (some other account or         *)
(* contract), "z" (the zero address), "pre" (an address of the precompile  *)
(* range), "gm", "cc", "cco" (the allow-listed addresses) and "" for an    *)
(* absent or null address.  Calldata is modelled by its 4-byte selector:   *)
(* "0x" is empty calldata.  A timestamp of 0 models an absent timeStamp    *)
(* field (Number(undefined || 0) is 0).  A null category is NoCat.         *)
(***************************************************************************)
EXTENDS Integers, Sequences, FiniteSets, TLC

\* the call of buildActivity in progress: the keys the node answers for, the
\* keys found in the cache, the order its concurrent fetches complete in
VARIABLE pending

\* ------------------------------------------------------------------------
\* Bounds of the model
\* ------------------------------------------------------------------------
MaxRecords  == 3          \* records the explorer returns, all feeds together
WindowEnd   == 2          \* endTs of the window; timestamps range over 0..WindowEnd+1
MaxCandidates == 2        \* native rows (of distinct hashes) handed to the
                          \* de-duplication alone

\* The three caps of the program, 200 / 350 / 250 in the source, scaled to
\* the feed sizes above so that a feed can exceed them
HYDRATE_INT_LIMIT == 1
HYDRATE_TOKEN_LIMIT == 2
MAX_MINTDOMAIN_CANDIDATES == 2

\* ------------------------------------------------------------------------
\* Program constants
\* ------------------------------------------------------------------------

ZERO == "z"
CCO_TARGET == "cco"
GM_CONTRACTS == {"gm"}
CC_CONTRACTS == {"cc"}
DOMAIN_CONTRACTS == {}

NoCat == "null"

\* String.prototype.toLowerCase on the strings of the model
ToLowerCase(s) ==
  CASE s = "H1" -> "h1"
    [] s = "H2" -> "h2"
    [] s = "U"  -> "u"
    [] s = "GM" -> "gm"
    [] OTHER    -> s

\* ------------------------------------------------------------------------
\* Selector and topic tables
\* ------------------------------------------------------------------------
TOPIC_ERC721_TRANSFER == "Transfer"
TOPIC_ERC721A_CONSEC  == "ConsecutiveTransfer"
TOPIC_ERC1155_SINGLE  == "TransferSingle"
TOPIC_ERC1155_BATCH   == "TransferBatch"
DOMAIN_TOPICS    == {"NameRegistered"}
DOMAIN_SELECTORS == {"0xregister"}
GM_SELECTORS     == {"0xgm"}
STAKE_SELECTORS  == {"0xstake"}
SWAP_SELECTORS   == {"0xswap"}
ADD_LIQ_SELECTORS == {"0xaddliq"}
REM_LIQ_SELECTORS == {"0xremliq"}
APPROVE_SELECTORS == {"0xapprove"}

\* tx.input.slice(0, 10).toLowerCase(): calldata is modelled by its selector
inputSig(tx) == IF tx.input = "" THEN "0x" ELSE tx.input

\* fn.includes(w) on the function names of the model: a modelled name is a
\* single keyword, so it includes w exactly when it is w
Includes(fn, w) == fn # "" /\ fn = w

emptyInput(d) == d \in {"", "0x"}
isPrecompile(to) == ToLowerCase(to) \in {"z", "pre"}

isFailed(rcpt) == rcpt.status = "reverted"
isFailedByTxlist(t) == t.isError = "1"

\* the value text of a record that BigInt cannot parse ("abc", "1.5")
NonNumeric == -1

\* BigInt(tx.value || '0'): throws SyntaxError on such a text
BigIntThrows(v) == v = NonNumeric

isNativeSendCandidate(tx, user) ==
  LET from == ToLowerCase(tx.from)
      to   == ToLowerCase(tx.to)
  IN  /\ from = user
      /\ to # ""
      /\ ~isPrecompile(to)
      /\ tx.value > 0
      /\ emptyInput(tx.input)

\* the texts of the model that the domain heuristic accepts
looksLikeDomainText(s) == s \in {"zns", "my.zen"}

isDomainBySigOrEvent(tx, rcpt) ==
  LET fn == tx.functionName
  IN  \/ \E w \in {"register", "domain", "name", "zns"} : Includes(fn, w)
      \/ inputSig(tx) \in DOMAIN_SELECTORS
      \/ \E i \in 1..Len(rcpt.logs) : rcpt.logs[i].topic0 \in DOMAIN_TOPICS

\* mutant: from and to of the log exchanged
mintedContractsFromUser(rcpt, user) ==
  { ToLowerCase(rcpt.logs[i].address) : i \in
      { j \in 1..Len(rcpt.logs) :
          /\ rcpt.logs[j].topic0 \in {TOPIC_ERC721_TRANSFER, TOPIC_ERC721A_CONSEC,
                                      TOPIC_ERC1155_SINGLE, TOPIC_ERC1155_BATCH}
          /\ rcpt.logs[j].from = user
          /\ rcpt.logs[j].to = ZERO } }

\* the contracts that emitted a mint-shaped transfer to the user
mintedContractsForUser(rcpt, user) ==
  { ToLowerCase(rcpt.logs[i].address) : i \in
      { j \in 1..Len(rcpt.logs) :
          /\ rcpt.logs[j].topic0 \in {TOPIC_ERC721_TRANSFER, TOPIC_ERC721A_CONSEC,
                                      TOPIC_ERC1155_SINGLE, TOPIC_ERC1155_BATCH}
          /\ rcpt.logs[j].from = ZERO
          /\ rcpt.logs[j].to = user } }

isStakeQuick(tx) ==
  \/ \E w \in {"bond", "stake", "delegate", "nominate", "unbond", "withdraw",
               "restake", "redelegate"} : Includes(tx.functionName, w)
  \/ inputSig(tx) \in STAKE_SELECTORS
isGMQuick(tx) ==
  \/ Includes(tx.functionName, "saygm") \/ tx.functionName = "gm"
  \/ inputSig(tx) \in GM_SELECTORS
isSwapQuick(tx) ==
  \/ \E w \in {"swap", "exactinput", "exactoutput"} : Includes(tx.functionName, w)
  \/ inputSig(tx) \in SWAP_SELECTORS
isAddLiquidityQuick(tx) ==
  \/ \E w \in {"addliquidity", "addliquidityeth"} : Includes(tx.functionName, w)
  \/ inputSig(tx) \in ADD_LIQ_SELECTORS
isRemoveLiquidityQuick(tx) ==
  \/ \E w \in {"removeliquidity", "decreaseliquidity"} : Includes(tx.functionName, w)
  \/ inputSig(tx) \in REM_LIQ_SELECTORS
isApproveQuick(tx) ==
  \/ tx.functionName = "approve"
  \/ \E w \in {"allowance", "approval"} : Includes(tx.functionName, w)
  \/ inputSig(tx) \in APPROVE_SELECTORS
isCCO(tx) == ToLowerCase(tx.to) = CCO_TARGET


\* ------------------------------------------------------------------------
\* Sequence helpers
\* ------------------------------------------------------------------------
Range(s) == { s[i] : i \in 1..Len(s) }
Min2(a, b) == IF a < b THEN a ELSE b
Take(s, n) == SubSeq(s, 1, Min2(n, Len(s)))

\* arr.filter over the positions in S, order kept
Pick(arr, S) ==
  LET F[i \in 0..Len(arr)] ==
        IF i = 0 THEN <<>>
        ELSE IF i \in S THEN Append(F[i-1], arr[i]) ELSE F[i-1]
  IN  F[Len(arr)]

\* String(x.hash || '').toLowerCase()  (the transactionHash alias of the
\* explorer is not modelled: every record carries its hash in `hash`)
HashKey(x) == ToLowerCase(x.hash)

\* the record kept for key k by a Map filled in array order (the last one)
LastIndex(arr, k) ==
  CHOOSE i \in 1..Len(arr) :
    /\ HashKey(arr[i]) = k
    /\ \A j \in (i+1)..Len(arr) : HashKey(arr[j]) # k
HasKey(arr, k) == \E i \in 1..Len(arr) : HashKey(arr[i]) = k

\* the keys of a Map filled in array order, in insertion order, empty keys
\* skipped
DistinctKeys(arr) ==
  LET F[i \in 0..Len(arr)] ==
        IF i = 0 THEN <<>>
        ELSE LET k == HashKey(arr[i])
             IN  IF k = "" \/ k \in Range(F[i-1]) THEN F[i-1]
                 ELSE Append(F[i-1], k)
  IN  F[Len(arr)]

uniqueBy(arr) ==
  Pick(arr, { i \in 1..Len(arr) :
                \A j \in 1..(i-1) : HashKey(arr[j]) # HashKey(arr[i]) })

\* ------------------------------------------------------------------------
\* Explorer paging: the window filter and the de-duplication applied to the
\* items of all pages read
\* ------------------------------------------------------------------------
InWindow(x, startTs, endTs) == x.timeStamp >= startTs /\ x.timeStamp <= endTs

fetchPagedAccount(out, startTs, endTs) ==
  uniqueBy(Pick(out, { i \in 1..Len(out) : InWindow(out[i], startTs, endTs) }))

\* ------------------------------------------------------------------------
\* RPC helpers.  `ok` is the set of keys for which the RPC answered within
\* the retries; `chainTxs`, `chainRcpts` are what the node holds.
\* ------------------------------------------------------------------------
getTransactionsSelective(hashes, ok, chainTxs) ==
  LET ks == { ToLowerCase(h) : h \in hashes } \ {""}
  IN  [ k \in (ks \cap ok) \cap DOMAIN chainTxs |-> chainTxs[k] ]

getReceiptsSelective(hashes, ok, chainRcpts) ==
  LET ks == { ToLowerCase(h) : h \in hashes } \ {""}
  IN  [ k \in (ks \cap ok) \cap DOMAIN chainRcpts |-> chainRcpts[k] ]

\* the external record synthesised from a fetched transaction
Hydrated(h, tx, ts) ==
  [ hash |-> h, blockNumber |-> tx.blockNumber, timeStamp |-> ts,
    from |-> ToLowerCase(tx.from), to |-> ToLowerCase(tx.to),
    value |-> tx.value, input |-> IF tx.input = "" THEN "0x" ELSE tx.input,
    functionName |-> "", isError |-> "" ]

hydrateMissingExternalsFromInternals(internalsFeed, externals, limit, ok, chainTxs) ==
  LET extSet  == { HashKey(externals[i]) : i \in 1..Len(externals) }
      keys    == DistinctKeys(internalsFeed)
      missing == Take(Pick(keys, { i \in 1..Len(keys) : keys[i] \notin extSet }), limit)
      txs     == getTransactionsSelective(Range(missing), ok, chainTxs)
      got     == Pick(missing, { i \in 1..Len(missing) : missing[i] \in DOMAIN txs })
      merged  == [ i \in 1..Len(got) |->
                     Hydrated(got[i], txs[got[i]],
                              internalsFeed[LastIndex(internalsFeed, got[i])].timeStamp) ]
  IN  externals \o merged

\* tsMap of hydrateMissingExternalsFromTokenFeeds: sequence of <<hash, ts>>
\* in insertion order; ERC-20 records overwrite, NFT records keep the minimum
TsMapKeys(m) == [ i \in 1..Len(m) |-> m[i][1] ]
TsMapGet(m, h) == (CHOOSE i \in 1..Len(m) : m[i][1] = h)
TsMapPut(m, h, t) ==
  IF h \in Range(TsMapKeys(m))
    THEN [ i \in 1..Len(m) |-> IF m[i][1] = h THEN <<h, t>> ELSE m[i] ]
    ELSE Append(m, <<h, t>>)

TokenTsMap(token20, token721, token1155, extSet) ==
  LET nfts == token721 \o token1155
      A[i \in 0..Len(token20)] ==
        IF i = 0 THEN <<>>
        ELSE LET h == HashKey(token20[i])
             IN  IF h # "" /\ h \notin extSet
                   THEN TsMapPut(A[i-1], h, token20[i].timeStamp)
                   ELSE A[i-1]
      B[i \in 0..Len(nfts)] ==
        IF i = 0 THEN A[Len(token20)]
        ELSE LET h == HashKey(nfts[i])
                 t == nfts[i].timeStamp
                 m == B[i-1]
             IN  IF h # "" /\ h \notin extSet
                      /\ (h \notin Range(TsMapKeys(m)) \/ t < m[TsMapGet(m, h)][2])
                   THEN TsMapPut(m, h, t)
                   ELSE m
  IN  B[Len(nfts)]

\* mutant: the merged records pushed in the order of the Map returned by
\* getTransactionsSelective, which is the order the fetches completed in
hydrateTokenFeedsInMapOrder(token20, token721, token1155, externals, limit, ok, chainTxs) ==
  LET extSet  == { HashKey(externals[i]) : i \in 1..Len(externals) }
      tsMap   == TokenTsMap(token20, token721, token1155, extSet)
      missing == Take(TsMapKeys(tsMap), limit)
      txs     == getTransactionsSelective(Range(missing), ok, chainTxs)
      got     == SelectSeq(pending.order,
                           LAMBDA k : k \in Range(missing) /\ k \in DOMAIN txs)
      merged  == [ i \in 1..Len(got) |->
                     Hydrated(got[i], txs[got[i]], tsMap[TsMapGet(tsMap, got[i])][2]) ]
  IN  externals \o merged

\* mutant: the hashes already in the external list not left out
hydrateTokenFeedsIgnoringExternals(token20, token721, token1155, externals, limit, ok, chainTxs) ==
  LET tsMap   == TokenTsMap(token20, token721, token1155, {})
      missing == Take(TsMapKeys(tsMap), limit)
      txs     == getTransactionsSelective(Range(missing), ok, chainTxs)
      got     == Pick(missing, { i \in 1..Len(missing) : missing[i] \in DOMAIN txs })
      merged  == [ i \in 1..Len(got) |->
                     Hydrated(got[i], txs[got[i]], tsMap[TsMapGet(tsMap, got[i])][2]) ]
  IN  externals \o merged

hydrateMissingExternalsFromTokenFeeds(token20, token721, token1155, externals, limit, ok, chainTxs) ==
  LET extSet  == { HashKey(externals[i]) : i \in 1..Len(externals) }
      tsMap   == TokenTsMap(token20, token721, token1155, extSet)
      missing == Take(TsMapKeys(tsMap), limit)
      txs     == getTransactionsSelective(Range(missing), ok, chainTxs)
      got     == Pick(missing, { i \in 1..Len(missing) : missing[i] \in DOMAIN txs })
      merged  == [ i \in 1..Len(got) |->
                     Hydrated(got[i], txs[got[i]], tsMap[TsMapGet(tsMap, got[i])][2]) ]
  IN  externals \o merged

\* blockOk: the block numbers getBlock answered for
fillMissingTimestamps(externals, blockOk, blockTime) ==
  [ i \in 1..Len(externals) |->
      LET t == externals[i]
      IN  IF t.timeStamp = 0 /\ t.blockNumber > 0
               /\ t.blockNumber \in blockOk /\ t.blockNumber \in DOMAIN blockTime
               /\ blockTime[t.blockNumber] > 0
            THEN [ t EXCEPT !.timeStamp = blockTime[t.blockNumber] ]
            ELSE t ]


\* ------------------------------------------------------------------------
\* buildActivity: feed hints
\* ------------------------------------------------------------------------
IsMintToUser(n, addr) == ToLowerCase(n.from) = ZERO /\ ToLowerCase(n.to) = addr

domainTxFromFeed(erc721, addr) ==
  { HashKey(erc721[i]) : i \in
      { j \in 1..Len(erc721) :
          /\ IsMintToUser(erc721[j], addr)
          /\ (looksLikeDomainText(erc721[j].tokenSymbol)
               \/ looksLikeDomainText(erc721[j].tokenName)) } }

\* mutant: the hint set built from the ERC-1155 feed alone
nftMintFromFeed1155Only(erc721, erc1155, addr) ==
  { HashKey(erc1155[i]) : i \in { j \in 1..Len(erc1155) : IsMintToUser(erc1155[j], addr) } }

nftMintFromFeed(erc721, erc1155, addr) ==
  { HashKey(erc721[i]) : i \in { j \in 1..Len(erc721) : IsMintToUser(erc721[j], addr) } }
  \cup
  { HashKey(erc1155[i]) : i \in { j \in 1..Len(erc1155) : IsMintToUser(erc1155[j], addr) } }

\* internal traces of the hash that show a creation by the user
hintedCreation(t, addr, internalsFeed) ==
  /\ HashKey(t) # ""
  /\ \E i \in 1..Len(internalsFeed) :
       /\ HashKey(internalsFeed[i]) = HashKey(t)
       /\ (internalsFeed[i].type \in {"create", "create2"}
            \/ internalsFeed[i].contractAddress # "")
       /\ ToLowerCase(t.from) = addr

\* ------------------------------------------------------------------------
\* buildActivity: first pass (Tier 1).  Tier1Rule is the if / else-if chain:
\* the category of rules 1 to 12, "candidate" for the native-send branch and
\* "else" for the final branch.
\* ------------------------------------------------------------------------
\* mutant: the feed hints tested before the failure flag
Tier1RuleHintsFirst(t, addr, dom, nft) ==
  LET toLower == ToLowerCase(t.to)
      h       == HashKey(t)
  IN  IF h \in dom THEN "domain_mint"
      ELSE IF h \in nft THEN "nft_mint"
      ELSE IF isFailedByTxlist(t) THEN "fail"
      ELSE IF toLower \in CC_CONTRACTS THEN "cc"
      ELSE IF isCCO(t) THEN "cco"
      ELSE IF toLower \in GM_CONTRACTS THEN "gm"
      ELSE IF isStakeQuick(t) THEN "stake"
      ELSE IF isSwapQuick(t) THEN "swap"
      ELSE IF isAddLiquidityQuick(t) THEN "add_liquidity"
      ELSE IF isRemoveLiquidityQuick(t) THEN "remove_liquidity"
      ELSE IF isGMQuick(t) THEN "gm"
      ELSE IF isApproveQuick(t) THEN "approve"
      ELSE IF isNativeSendCandidate(t, addr) THEN "candidate"
      ELSE "else"

\* mutant: the GM allow-list tested together with the GM selectors
Tier1RuleGmLate(t, addr, dom, nft) ==
  LET toLower == ToLowerCase(t.to)
      h       == HashKey(t)
  IN  IF isFailedByTxlist(t) THEN "fail"
      ELSE IF toLower \in CC_CONTRACTS THEN "cc"
      ELSE IF isCCO(t) THEN "cco"
      ELSE IF h \in dom THEN "domain_mint"
      ELSE IF h \in nft THEN "nft_mint"
      ELSE IF isStakeQuick(t) THEN "stake"
      ELSE IF isSwapQuick(t) THEN "swap"
      ELSE IF isAddLiquidityQuick(t) THEN "add_liquidity"
      ELSE IF isRemoveLiquidityQuick(t) THEN "remove_liquidity"
      ELSE IF isGMQuick(t) \/ toLower \in GM_CONTRACTS THEN "gm"
      ELSE IF isApproveQuick(t) THEN "approve"
      ELSE IF isNativeSendCandidate(t, addr) THEN "candidate"
      ELSE "else"

\* mutant: the approve family tested before the stake family
Tier1RuleApproveEarly(t, addr, dom, nft) ==
  LET toLower == ToLowerCase(t.to)
      h       == HashKey(t)
  IN  IF isFailedByTxlist(t) THEN "fail"
      ELSE IF toLower \in CC_CONTRACTS THEN "cc"
      ELSE IF isCCO(t) THEN "cco"
      ELSE IF toLower \in GM_CONTRACTS THEN "gm"
      ELSE IF h \in dom THEN "domain_mint"
      ELSE IF h \in nft THEN "nft_mint"
      ELSE IF isApproveQuick(t) THEN "approve"
      ELSE IF isStakeQuick(t) THEN "stake"
      ELSE IF isSwapQuick(t) THEN "swap"
      ELSE IF isAddLiquidityQuick(t) THEN "add_liquidity"
      ELSE IF isRemoveLiquidityQuick(t) THEN "remove_liquidity"
      ELSE IF isGMQuick(t) THEN "gm"
      ELSE IF isNativeSendCandidate(t, addr) THEN "candidate"
      ELSE "else"

Tier1Rule(t, addr, dom, nft) ==
  LET toLower == ToLowerCase(t.to)
      h       == HashKey(t)
  IN  IF isFailedByTxlist(t) THEN "fail"
      ELSE IF toLower \in CC_CONTRACTS THEN "cc"
      ELSE IF isCCO(t) THEN "cco"
      ELSE IF toLower \in GM_CONTRACTS THEN "gm"
      ELSE IF h \in dom THEN "domain_mint"
      ELSE IF h \in nft THEN "nft_mint"
      ELSE IF isStakeQuick(t) THEN "stake"
      ELSE IF isSwapQuick(t) THEN "swap"
      ELSE IF isAddLiquidityQuick(t) THEN "add_liquidity"
      ELSE IF isRemoveLiquidityQuick(t) THEN "remove_liquidity"
      ELSE IF isGMQuick(t) THEN "gm"
      ELSE IF isApproveQuick(t) THEN "approve"
      ELSE IF isNativeSendCandidate(t, addr) THEN "candidate"
      ELSE "else"

Tier1Category(t, addr, dom, nft, internalsFeed) ==
  LET r == Tier1Rule(t, addr, dom, nft)
  IN  IF r = "candidate" THEN "other"
      ELSE IF r = "else"
        THEN (IF hintedCreation(t, addr, internalsFeed) THEN "cc" ELSE "other")
      ELSE r

\* mutant: the test `category === 'other'` left out
IsMintDomainCandidateAnyCategory(t, addr, dom, nft, internalsFeed) ==
  /\ Tier1Rule(t, addr, dom, nft) # "candidate"
  /\ ToLowerCase(t.from) = addr
  /\ t.to # "" /\ ~isPrecompile(t.to)
  /\ (~emptyInput(t.input) \/ ToLowerCase(t.to) \in DOMAIN_CONTRACTS)

\* the unknown outgoing contract call that is scanned for mints / domains
IsMintDomainCandidate(t, addr, dom, nft, internalsFeed) ==
  /\ Tier1Rule(t, addr, dom, nft) = "else"
  /\ Tier1Category(t, addr, dom, nft, internalsFeed) = "other"
  /\ ToLowerCase(t.from) = addr
  /\ t.to # "" /\ ~isPrecompile(t.to)
  /\ (~emptyInput(t.input) \/ ToLowerCase(t.to) \in DOMAIN_CONTRACTS)

NativeRow(t, addr, category) ==
  [ kind |-> "native", standard |-> "", hash |-> t.hash,
    blockNumber |-> t.blockNumber,
    timeMs |-> (IF t.timeStamp > 0 THEN t.timeStamp ELSE 0) * 1000,
    from |-> ToLowerCase(t.from), to |-> ToLowerCase(t.to),
    direction |-> IF ToLowerCase(t.from) = addr THEN "out" ELSE "in",
    category |-> category ]

\* the native-send test is reached by a record that no earlier rule took, and
\* it converts the value before it looks at anything else
Tier1Throws(t, addr, dom, nft) ==
  /\ Tier1Rule(t, addr, dom, nft) \in {"candidate", "else"}
  /\ BigIntThrows(t.value)

\* the loop over externals is left by the exception of the first such record
firstPassThrows(externals, addr, erc721, erc1155) ==
  LET dom == domainTxFromFeed(erc721, addr)
      nft == nftMintFromFeed(erc721, erc1155, addr)
  IN  \E i \in 1..Len(externals) : Tier1Throws(externals[i], addr, dom, nft)

\* mutant: the cap passed by one
underCapOffByOne(cands) == Len(cands) <= MAX_MINTDOMAIN_CANDIDATES

\* mintDomainCandidates.length < MAX_MINTDOMAIN_CANDIDATES
underCap(cands) == Len(cands) < MAX_MINTDOMAIN_CANDIDATES

\* the loop over externals: rows, nativeConfirmSet, mintDomainCandidates
firstPass(externals, addr, internalsFeed, erc721, erc1155) ==
  LET dom == domainTxFromFeed(erc721, addr)
      nft == nftMintFromFeed(erc721, erc1155, addr)
      F[i \in 0..Len(externals)] ==
        IF i = 0 THEN [ rows |-> <<>>, confirm |-> {}, cands |-> <<>> ]
        ELSE LET t    == externals[i]
                 prev == F[i-1]
                 cat  == Tier1Category(t, addr, dom, nft, internalsFeed)
             IN  [ rows    |-> Append(prev.rows, NativeRow(t, addr, cat)),
                   confirm |-> IF Tier1Rule(t, addr, dom, nft) = "candidate"
                                 THEN prev.confirm \cup {HashKey(t)}
                                 ELSE prev.confirm,
                   cands   |-> IF /\ IsMintDomainCandidate(t, addr, dom, nft, internalsFeed)
                                  /\ underCap(prev.cands)
                                 THEN Append(prev.cands, HashKey(t))
                                 ELSE prev.cands ]
  IN  F[Len(externals)]

\* ------------------------------------------------------------------------
\* buildActivity: receipt pass (Tier 2)
\* ------------------------------------------------------------------------
isDomainContract(c, meta) ==
  /\ c # ""
  /\ \/ c \in DOMAIN_CONTRACTS
     \/ (c \in DOMAIN meta /\ (looksLikeDomainText(meta[c].symbol)
                               \/ looksLikeDomainText(meta[c].name)))

\* mutant: the test on the logs inverted
confirmNativeSendsWithLogs(rows, confirm, rcpts) ==
  [ i \in 1..Len(rows) |->
      LET h == HashKey(rows[i])
      IN  IF /\ h \in confirm
             /\ h \in DOMAIN rcpts
             /\ i = LastIndex(rows, h)
             /\ ~isFailed(rcpts[h])
             /\ Len(rcpts[h].logs) # 0
            THEN [ rows[i] EXCEPT !.category = "native_send" ]
            ELSE rows[i] ]

\* mutant: the status of the receipt not looked at
confirmNativeSendsAnyStatus(rows, confirm, rcpts) ==
  [ i \in 1..Len(rows) |->
      LET h == HashKey(rows[i])
      IN  IF /\ h \in confirm
             /\ h \in DOMAIN rcpts
             /\ i = LastIndex(rows, h)
             /\ Len(rcpts[h].logs) = 0
            THEN [ rows[i] EXCEPT !.category = "native_send" ]
            ELSE rows[i] ]

\* rows of nativeConfirmSet whose receipt succeeded with zero logs
confirmNativeSends(rows, confirm, rcpts) ==
  [ i \in 1..Len(rows) |->
      LET h == HashKey(rows[i])
      IN  IF /\ h \in confirm
             /\ h \in DOMAIN rcpts
             /\ i = LastIndex(rows, h)
             /\ ~isFailed(rcpts[h])
             /\ Len(rcpts[h].logs) = 0
            THEN [ rows[i] EXCEPT !.category = "native_send" ]
            ELSE rows[i] ]

MintDomainCategory(tx, rcp, addr, meta, old) ==
  IF isDomainBySigOrEvent(tx, rcp) THEN "domain_mint"
  ELSE LET minted == mintedContractsForUser(rcp, addr)
       IN  IF minted # {}
             THEN (IF \E c \in minted : c \in DOMAIN_CONTRACTS \/ isDomainContract(c, meta)
                     THEN "domain_mint" ELSE "nft_mint")
             ELSE old

detectMintsDomains(rows, cands, rcpts, externals, addr, meta) ==
  [ i \in 1..Len(rows) |->
      LET h == HashKey(rows[i])
      IN  IF /\ h \in Range(cands)
             /\ h \in DOMAIN rcpts
             /\ i = LastIndex(rows, h)
             /\ ~isFailed(rcpts[h])
            THEN [ rows[i] EXCEPT !.category =
                     MintDomainCategory(externals[LastIndex(externals, h)], rcpts[h],
                                        addr, meta, rows[i].category) ]
            ELSE rows[i] ]

receiptPass(rows, confirm, cands, rcpts, externals, addr, meta) ==
  detectMintsDomains(confirmNativeSends(rows, confirm, rcpts),
                     cands, rcpts, externals, addr, meta)

\* ------------------------------------------------------------------------
\* buildActivity: visible non-native rows
\* ------------------------------------------------------------------------
internalRows(internalsFeed, addr) ==
  [ i \in 1..Len(internalsFeed) |->
      LET it == internalsFeed[i]
      IN  [ kind |-> "internal", standard |-> "", hash |-> it.hash,
            blockNumber |-> it.blockNumber, timeMs |-> it.timeStamp * 1000,
            from |-> ToLowerCase(it.from), to |-> ToLowerCase(it.to),
            direction |-> IF ToLowerCase(it.from) = addr THEN "out" ELSE "in",
            category |-> NoCat ] ]

token20Rows(erc20, addr) ==
  [ i \in 1..Len(erc20) |->
      LET e == erc20[i]
      IN  [ kind |-> "token", standard |-> "erc20", hash |-> e.hash,
            blockNumber |-> e.blockNumber, timeMs |-> e.timeStamp * 1000,
            from |-> ToLowerCase(e.from), to |-> ToLowerCase(e.to),
            direction |-> IF ToLowerCase(e.from) = addr THEN "out" ELSE "in",
            category |-> NoCat ] ]

token721Rows(erc721, addr) ==
  [ i \in 1..Len(erc721) |->
      LET n == erc721[i]
      IN  [ kind |-> "token", standard |-> "erc721", hash |-> n.hash,
            blockNumber |-> n.blockNumber, timeMs |-> n.timeStamp * 1000,
            from |-> ToLowerCase(n.from), to |-> ToLowerCase(n.to),
            direction |-> IF ToLowerCase(n.from) = addr THEN "out" ELSE "in",
            category |-> IF IsMintToUser(n, addr) THEN "nft_mint" ELSE NoCat ] ]

\* ------------------------------------------------------------------------
\* buildActivity: merge, de-duplicate by priority, sort
\* ------------------------------------------------------------------------
\* mutant: an unclassified native row ranked below the internal rows
prioNativeOtherLast(r) ==
  IF r.kind = "native" THEN
    CASE r.category = "fail"             -> 125
      [] r.category = "domain_mint"      -> 120
      [] r.category = "cc"               -> 115
      [] r.category = "cco"              -> 112
      [] r.category = "stake"            -> 105
      [] r.category = "swap"             -> 104
      [] r.category = "add_liquidity"    -> 103
      [] r.category = "remove_liquidity" -> 103
      [] r.category = "gm"               -> 100
      [] r.category = "native_send"      -> 95
      [] r.category = "approve"          -> 93
      [] r.category = "nft_mint"         -> 90
      [] r.category = "other"            -> 8
      [] OTHER                           -> 50
  ELSE IF r.kind = "token" THEN (IF r.category = "nft_mint" THEN 85 ELSE 20)
  ELSE IF r.kind = "internal" THEN 10
  ELSE 0

\* mutant: a token mint ranked below the unclassified native row
prioTokenMintLow(r) ==
  IF r.kind = "native" THEN
    CASE r.category = "fail"             -> 125
      [] r.category = "domain_mint"      -> 120
      [] r.category = "cc"               -> 115
      [] r.category = "cco"              -> 112
      [] r.category = "stake"            -> 105
      [] r.category = "swap"             -> 104
      [] r.category = "add_liquidity"    -> 103
      [] r.category = "remove_liquidity" -> 103
      [] r.category = "gm"               -> 100
      [] r.category = "native_send"      -> 95
      [] r.category = "approve"          -> 93
      [] r.category = "nft_mint"         -> 90
      [] r.category = "other"            -> 80
      [] OTHER                           -> 50
  ELSE IF r.kind = "token" THEN (IF r.category = "nft_mint" THEN 75 ELSE 20)
  ELSE IF r.kind = "internal" THEN 10
  ELSE 0

prio(r) ==
  IF r.kind = "native" THEN
    CASE r.category = "fail"             -> 125
      [] r.category = "domain_mint"      -> 120
      [] r.category = "cc"               -> 115
      [] r.category = "cco"              -> 112
      [] r.category = "stake"            -> 105
      [] r.category = "swap"             -> 104
      [] r.category = "add_liquidity"    -> 103
      [] r.category = "remove_liquidity" -> 103
      [] r.category = "gm"               -> 100
      [] r.category = "native_send"      -> 95
      [] r.category = "approve"          -> 93
      [] r.category = "nft_mint"         -> 90
      [] r.category = "other"            -> 80
      [] OTHER                           -> 50
  ELSE IF r.kind = "token" THEN (IF r.category = "nft_mint" THEN 85 ELSE 20)
  ELSE IF r.kind = "internal" THEN 10
  ELSE 0

\* mutant: `prio(r) >= prio(cur)`, the last row of the highest priority kept
BestIndexLastWins(all, k) ==
  CHOOSE i \in 1..Len(all) :
    /\ HashKey(all[i]) = k
    /\ \A j \in 1..Len(all) :
         HashKey(all[j]) = k =>
           \/ prio(all[j]) < prio(all[i])
           \/ (prio(all[j]) = prio(all[i]) /\ j <= i)

\* the Map `best`: per key the first row of the highest priority, keys in
\* insertion order
BestIndex(all, k) ==
  CHOOSE i \in 1..Len(all) :
    /\ HashKey(all[i]) = k
    /\ \A j \in 1..Len(all) :
         HashKey(all[j]) = k =>
           \/ prio(all[j]) < prio(all[i])
           \/ (prio(all[j]) = prio(all[i]) /\ j >= i)

\* mutant: the Map keyed by the hash as written, not lowercased
dedupeCaseSensitive(all) ==
  LET firsts == Pick([ i \in 1..Len(all) |-> i ],
                     { i \in 1..Len(all) :
                         /\ all[i].hash # ""
                         /\ \A j \in 1..(i-1) : all[j].hash # all[i].hash })
      bestOf(i) == CHOOSE b \in 1..Len(all) :
                     /\ all[b].hash = all[i].hash
                     /\ \A j \in 1..Len(all) :
                          all[j].hash = all[i].hash =>
                            \/ prio(all[j]) < prio(all[b])
                            \/ (prio(all[j]) = prio(all[b]) /\ j >= b)
  IN  [ n \in 1..Len(firsts) |-> all[bestOf(firsts[n])] ]

dedupe(all) ==
  LET keys == DistinctKeys(all)
  IN  [ i \in 1..Len(keys) |-> all[BestIndex(all, keys[i])] ]

\* Array.prototype.sort((a, b) => b.timeMs - a.timeMs): stable
InsertDesc(sorted, r) ==
  LET n == Cardinality({ i \in 1..Len(sorted) : sorted[i].timeMs >= r.timeMs })
  IN  SubSeq(sorted, 1, n) \o <<r>> \o SubSeq(sorted, n + 1, Len(sorted))

\* mutant: comparator a.timeMs - b.timeMs
sortByTimeAsc(rows) ==
  LET ins(sorted, r) ==
        LET n == Cardinality({ i \in 1..Len(sorted) : sorted[i].timeMs <= r.timeMs })
        IN  SubSeq(sorted, 1, n) \o <<r>> \o SubSeq(sorted, n + 1, Len(sorted))
      F[i \in 0..Len(rows)] ==
        IF i = 0 THEN <<>> ELSE ins(F[i-1], rows[i])
  IN  F[Len(rows)]

sortByTimeDesc(rows) ==
  LET F[i \in 0..Len(rows)] ==
        IF i = 0 THEN <<>> ELSE InsertDesc(F[i-1], rows[i])
  IN  F[Len(rows)]

reconcile(nativeRows, internalsFeed, erc20, erc721, addr) ==
  sortByTimeDesc(dedupe(nativeRows \o internalRows(internalsFeed, addr)
                          \o token20Rows(erc20, addr) \o token721Rows(erc721, addr)))

\* ------------------------------------------------------------------------
\* buildStats
\* ------------------------------------------------------------------------
\* mutant: the direction filter left out
extOutAnyDirection(activity) ==
  SelectSeq(activity, LAMBDA r : r.kind = "native" /\ r.category # "fail")

extOut(activity) ==
  SelectSeq(activity, LAMBDA r : r.kind = "native" /\ r.direction = "out"
                                   /\ r.category # "fail")

countCat(rows, name) == Len(SelectSeq(rows, LAMBDA r : r.category = name))

\* mutant: the merged deploy counter without the relay-target rows
ccOnly(rows) == countCat(rows, "cc")

ccBoth(rows) == Len(SelectSeq(rows, LAMBDA r : r.category \in {"cc", "cco"}))

buildStats(activity) ==
  LET out == extOut(activity)
  IN  [ stakeActions         |-> countCat(out, "stake"),
        nativeSends          |-> countCat(out, "native_send"),
        nftMints             |-> countCat(out, "nft_mint"),
        domainMints          |-> countCat(out, "domain_mint"),
        gmCount              |-> countCat(out, "gm"),
        ccCount              |-> ccBoth(out),
        swapCount            |-> countCat(out, "swap"),
        addLiquidityCount    |-> countCat(out, "add_liquidity"),
        removeLiquidityCount |-> countCat(out, "remove_liquidity"),
        approveCount         |-> countCat(out, "approve") ]


\* ------------------------------------------------------------------------
\* State
\* ------------------------------------------------------------------------

VARIABLES
  pc,                   \* position inside buildActivity / buildStats
  address,              \* the queried address as passed by the caller
  startTs,              \* window start (the window end is WindowEnd)
  explorer,             \* the items the explorer returns, per feed action
  chain,                \* what the node holds: tx, receipt, blockTime, meta
  externalsRaw,         \* the five fetched feeds
  internalsFeed,
  erc20,
  erc721,
  erc1155,
  externals,            \* externals after hydration
  nativeRows,
  nativeConfirmSet,
  mintDomainCandidates,
  rcpts,                \* receipts returned by getReceiptsSelective
  activity,             \* result of buildActivity
  stats,                \* result of buildStats
  calls,                \* finished calls compared for determinism
  task,                 \* receipt-fetch tasks handed to limitReceipt
  active,               \* limitReceipt: tasks running
  queue,                \* limitReceipt: tasks waiting
  receiptCache,         \* keys of the process-wide receipt cache
  outMap,               \* per caller, the keys of the Map getReceiptsSelective fills
  pager,                \* one run of fetchPagedAccount over one feed
  meta721               \* metaCache, metaCacheLock and the calls of get721Meta

vars == << pc, address, startTs, explorer, chain, externalsRaw, internalsFeed,
           erc20, erc721, erc1155, externals, nativeRows, nativeConfirmSet,
           mintDomainCandidates, rcpts, activity, stats,
           calls, pending, task, active, queue, receiptCache, outMap, pager,
           meta721 >>

pageVars == << pager >>
metaVars == << meta721 >>

callVars == << calls, pending >>
rpcVars  == << task, active, queue, receiptCache, outMap >>
pipeVars == << pc, address, startTs, explorer, chain, externalsRaw, internalsFeed,
               erc20, erc721, erc1155, externals, nativeRows, nativeConfirmSet,
               mintDomainCandidates, rcpts, activity, stats >>

\* mutant: the queried address compared as given
addrAsGiven == address

addr == ToLowerCase(address)

\* ------------------------------------------------------------------------
\* Inputs: explorer records and node contents
\* ------------------------------------------------------------------------
SeqsUpTo(S, n) == UNION { [1..k -> S] : k \in 0..n }

ExtRec(h, tx, ts, isError, fn) ==
  [ hash |-> h, blockNumber |-> tx.blockNumber, timeStamp |-> ts,
    from |-> tx.from, to |-> tx.to, value |-> tx.value, input |-> tx.input,
    functionName |-> fn, isError |-> isError ]
IntRec(h, bn, ts, type) ==
  [ hash |-> h, blockNumber |-> bn, timeStamp |-> ts, from |-> "x", to |-> "u",
    value |-> 1, type |-> type, contractAddress |-> "" ]
TokRec(h, bn, ts, from, to, symbol) ==
  [ hash |-> h, blockNumber |-> bn, timeStamp |-> ts, from |-> from, to |-> to,
    tokenSymbol |-> symbol, tokenName |-> "" ]
Tx(from, to, value, input, bn) ==
  [ from |-> from, to |-> to, value |-> value, input |-> input, blockNumber |-> bn ]
Log(address_, topic0, from, to) ==
  [ address |-> address_, topic0 |-> topic0, from |-> from, to |-> to ]
Receipt(status, logs) == [ status |-> status, logs |-> logs ]

NoStats == [ stakeActions |-> 0, nativeSends |-> 0, nftMints |-> 0, domainMints |-> 0,
             gmCount |-> 0, ccCount |-> 0, swapCount |-> 0, addLiquidityCount |-> 0,
             removeLiquidityCount |-> 0, approveCount |-> 0 ]

\* no call recorded, no fetch task submitted
NoCall == [ busy |-> FALSE, rpcTx |-> {}, cacheTx |-> {}, order |-> <<>> ]
IdleCalls == calls = <<>> /\ pending = NoCall
IdleRpc ==
  /\ task = << >> /\ active = 0 /\ queue = <<>>
  /\ receiptCache = {} /\ outMap = << >>
NoPager == [ st |-> "idle" ]
IdlePager == pager = NoPager
NoMeta ==
  [ cache |-> << >>, lock |-> << >>, promise |-> << >>, call |-> << >>,
    reads |-> [ symbol |-> << >>, name |-> << >> ] ]
IdleMeta == meta721 = NoMeta

InitRest ==
  /\ pc = "fetch"
  /\ address = "u"
  /\ externalsRaw = <<>> /\ internalsFeed = <<>> /\ erc20 = <<>>
  /\ erc721 = <<>> /\ erc1155 = <<>> /\ externals = <<>>
  /\ nativeRows = <<>> /\ nativeConfirmSet = {} /\ mintDomainCandidates = <<>>
  /\ rcpts = << >> /\ activity = <<>> /\ stats = NoStats
  /\ IdleCalls /\ IdleRpc /\ IdlePager /\ IdleMeta

\* (a) several records per feed, the same hash in several feeds and in both
\* letter cases, records in and out of the window and without a timestamp;
\* every transaction is a plain transfer by the user
InitFeeds ==
  \E ts \in { <<1, WindowEnd>>, <<1, 0>>, <<WindowEnd + 1, WindowEnd>> } :
    LET t1 == ts[1]
        f2 == ts[2]
        tsOf(h)  == IF ToLowerCase(h) = "h1" THEN t1 ELSE f2
        bnOf(h)  == IF ToLowerCase(h) = "h1" THEN 1 ELSE 2
        plain(h) == Tx("u", "x", 1, "0x", bnOf(h))
        ext  == { ExtRec(h, plain(h), tsOf(h), "0", "") : h \in {"h1", "H1", "h2", ""} }
        int  == { IntRec(h, bnOf(h), tsOf(h), "call") : h \in {"h1", "H1", "h2"} }
        t20  == { TokRec(h, bnOf(h), tsOf(h), "u", "x", "TOKEN") : h \in {"h2"} }
        t721 == { TokRec(h, bnOf(h), tsOf(h), f, "u", "NFT") :
                    h \in {"h1", "h2"}, f \in {ZERO, "x"} }
        t1155 == { TokRec(h, bnOf(h), tsOf(h), ZERO, "u", "") : h \in {"h1", "h2"} }
    IN  /\ startTs = 0
        /\ chain = [ tx |-> [ h \in {"h1", "h2"} |-> plain(h) ],
                     receipt |-> [ h \in {"h1", "h2"} |-> Receipt("success", <<>>) ],
                     blockTime |-> (1 :> t1 @@ 2 :> WindowEnd),
                     meta |-> << >> ]
        /\ \E n \in [ {"txlist", "txlistinternal", "tokentx", "tokennfttx",
                        "token1155tx"} -> 0..MaxRecords ] :
             /\ n.txlist + n.txlistinternal + n.tokentx + n.tokennfttx
                  + n.token1155tx <= MaxRecords
             /\ explorer \in [ txlist         : [1..n.txlist -> ext],
                               txlistinternal : [1..n.txlistinternal -> int],
                               tokentx        : [1..n.tokentx -> t20],
                               tokennfttx     : [1..n.tokennfttx -> t721],
                               token1155tx    : [1..n.token1155tx -> t1155] ]
        /\ InitRest

\* (b) one transaction "h1" of every shape, with at most one record in the
\* external, internal and ERC-721 feeds and every kind of receipt; the
\* explorer decodes the function name of the unknown selector or leaves it
\* empty; contract "x" is a plain collection, contract "d" a naming service
TxShapes ==
  { Tx(from, to, value, input, 1) :
      from \in {"u", "x"}, to \in {"x", "gm", "pre", ""}, value \in {0, 1},
      input \in {"0x", "0xstake", "0xmint"} }
FnOf(input) == IF input = "0xmint" THEN {"", "register"} ELSE {""}
ReceiptShapes ==
  { Receipt("success", logs) :
      logs \in { <<>>,
                 << Log("x", TOPIC_ERC721_TRANSFER, ZERO, "u") >>,
                 << Log("d", TOPIC_ERC721_TRANSFER, ZERO, "u") >>,
                 << Log("x", "NameRegistered", "", "") >> } }
  \cup
  { Receipt("reverted", logs) :
      logs \in { <<>>, << Log("x", TOPIC_ERC721_TRANSFER, ZERO, "u") >> } }

InitClassify ==
  \E tx \in TxShapes, rc \in ReceiptShapes :
    LET ext  == { ExtRec("h1", tx, 1, e, fn) : e \in {"0", "1"}, fn \in FnOf(tx.input) }
        int  == { IntRec("h1", 1, 1, "create") }
        t721 == { TokRec("h1", 1, 1, ZERO, "u", sy) : sy \in {"NFT", "zns"} }
    IN  /\ startTs = 0
        /\ chain = [ tx |-> [ h \in {"h1"} |-> tx ],
                     receipt |-> [ h \in {"h1"} |-> rc ],
                     blockTime |-> (1 :> 1),
                     meta |-> ("x" :> [symbol |-> "NFT", name |-> ""]
                               @@ "d" :> [symbol |-> "zns", name |-> ""]) ]
        /\ explorer \in [ txlist         : SeqsUpTo(ext, 1),
                          txlistinternal : SeqsUpTo(int, 1),
                          tokentx        : {<<>>},
                          tokennfttx     : SeqsUpTo(t721, 1),
                          token1155tx    : {<<>>} ]
        /\ InitRest

Init == InitFeeds \/ InitClassify

\* ------------------------------------------------------------------------
\* Actions: one per awaited stage of buildActivity, then buildStats
\* ------------------------------------------------------------------------
\* the five fetchPagedAccount calls of Promise.all
Fetch ==
  /\ pc = "fetch"
  /\ externalsRaw'  = fetchPagedAccount(explorer.txlist, startTs, WindowEnd)
  /\ internalsFeed' = fetchPagedAccount(explorer.txlistinternal, startTs, WindowEnd)
  /\ erc20'         = fetchPagedAccount(explorer.tokentx, startTs, WindowEnd)
  /\ erc721'        = fetchPagedAccount(explorer.tokennfttx, startTs, WindowEnd)
  /\ erc1155'       = fetchPagedAccount(explorer.token1155tx, startTs, WindowEnd)
  /\ externals'     = fetchPagedAccount(explorer.txlist, startTs, WindowEnd)
  /\ pc' = "hydrate"
  /\ UNCHANGED << address, startTs, explorer, chain, nativeRows, nativeConfirmSet,
                  mintDomainCandidates, rcpts, activity, stats >>
  /\ UNCHANGED << callVars, rpcVars, pageVars, metaVars >>

\* both hydration stages and fillMissingTimestamps; okInt, okTok, okBlk are
\* the hashes / blocks the RPC answered for in each of the three calls
Hydrate ==
  /\ pc = "hydrate"
  /\ \E okInt \in SUBSET (DOMAIN chain.tx), okTok \in SUBSET (DOMAIN chain.tx),
        okBlk \in SUBSET (DOMAIN chain.blockTime) :
       LET e1 == hydrateMissingExternalsFromInternals(
                   internalsFeed, externals, HYDRATE_INT_LIMIT, okInt, chain.tx)
           e2 == hydrateMissingExternalsFromTokenFeeds(
                   erc20, erc721, erc1155, e1, HYDRATE_TOKEN_LIMIT, okTok, chain.tx)
       IN  externals' = fillMissingTimestamps(e2, okBlk, chain.blockTime)
  /\ pc' = "tier1"
  /\ UNCHANGED << address, startTs, explorer, chain, externalsRaw, internalsFeed,
                  erc20, erc721, erc1155, nativeRows, nativeConfirmSet,
                  mintDomainCandidates, rcpts, activity, stats >>
  /\ UNCHANGED << callVars, rpcVars, pageVars, metaVars >>

Classify ==
  /\ pc = "tier1"
  /\ IF firstPassThrows(externals, addr, erc721, erc1155)
       THEN /\ pc' = "rejected"
            /\ UNCHANGED << nativeRows, nativeConfirmSet, mintDomainCandidates >>
       ELSE /\ LET r == firstPass(externals, addr, internalsFeed, erc721, erc1155)
               IN  /\ nativeRows' = r.rows
                   /\ nativeConfirmSet' = r.confirm
                   /\ mintDomainCandidates' = r.cands
            /\ pc' = "tier2"
  /\ UNCHANGED << address, startTs, explorer, chain, externalsRaw, internalsFeed,
                  erc20, erc721, erc1155, externals, rcpts, activity, stats >>
  /\ UNCHANGED << callVars, rpcVars, pageVars, metaVars >>

\* okRc: the hashes getTransactionReceipt answered for within the retries
Confirm ==
  /\ pc = "tier2"
  /\ \E okRc \in SUBSET (DOMAIN chain.receipt) :
       LET toConfirm == nativeConfirmSet \cup Range(mintDomainCandidates)
           got == getReceiptsSelective(toConfirm, okRc, chain.receipt)
       IN  /\ rcpts' = got
           /\ nativeRows' = receiptPass(nativeRows, nativeConfirmSet,
                                        mintDomainCandidates, got, externals, addr,
                                        chain.meta)
  /\ pc' = "merge"
  /\ UNCHANGED << address, startTs, explorer, chain, externalsRaw, internalsFeed,
                  erc20, erc721, erc1155, externals, nativeConfirmSet,
                  mintDomainCandidates, activity, stats >>
  /\ UNCHANGED << callVars, rpcVars, pageVars, metaVars >>

Reconcile ==
  /\ pc = "merge"
  /\ activity' = reconcile(nativeRows, internalsFeed, erc20, erc721, addr)
  /\ pc' = "stats"
  /\ UNCHANGED << address, startTs, explorer, chain, externalsRaw, internalsFeed,
                  erc20, erc721, erc1155, externals, nativeRows, nativeConfirmSet,
                  mintDomainCandidates, rcpts, stats >>
  /\ UNCHANGED << callVars, rpcVars, pageVars, metaVars >>

Stats ==
  /\ pc = "stats"
  /\ stats' = buildStats(activity)
  /\ pc' = "done"
  /\ UNCHANGED << address, startTs, explorer, chain, externalsRaw, internalsFeed,
                  erc20, erc721, erc1155, externals, nativeRows, nativeConfirmSet,
                  mintDomainCandidates, rcpts, activity >>
  /\ UNCHANGED << callVars, rpcVars, pageVars, metaVars >>

Next == Fetch \/ Hydrate \/ Classify \/ Confirm \/ Reconcile \/ Stats

Spec == Init /\ [][Next]_vars

\* ------------------------------------------------------------------------
\* The de-duplication as a function of arbitrary candidate rows: native rows
\* of every category, an internal record, an ERC-20 record and an ERC-721
\* record (a mint to the user or not) over two hashes
\* ------------------------------------------------------------------------
Categories ==
  { "fail", "domain_mint", "cc", "cco", "stake", "swap", "add_liquidity",
    "remove_liquidity", "gm", "native_send", "approve", "nft_mint", "other" }

InitDedupe ==
  LET call(h) == ExtRec(h, Tx("u", "x", 0, "0xmint", 1), 1, "0", "")
      native  == { NativeRow(call(h), "u", c) : h \in {"h1", "h2"}, c \in Categories }
  IN  /\ pc = "merge"
      /\ address = "u"
      /\ startTs = 0
      /\ explorer = << >> /\ chain = << >>
      /\ externalsRaw = <<>> /\ externals = <<>> /\ erc1155 = <<>>
      /\ nativeRows \in { s \in SeqsUpTo(native, MaxCandidates) :
                            \A i, j \in 1..Len(s) :
                              i # j => HashKey(s[i]) # HashKey(s[j]) }
      /\ internalsFeed \in SeqsUpTo({ IntRec("H1", 1, 1, "call") }, 1)
      /\ erc20 \in SeqsUpTo({ TokRec("h2", 1, 1, "u", "x", "TOKEN") }, 1)
      /\ erc721 \in SeqsUpTo({ TokRec("h1", 1, 1, f, "u", "NFT") : f \in {ZERO, "x"} }, 1)
      /\ nativeConfirmSet = {} /\ mintDomainCandidates = <<>>
      /\ rcpts = << >> /\ activity = <<>> /\ stats = NoStats
      /\ IdleCalls /\ IdleRpc /\ IdlePager /\ IdleMeta

NextDedupe == Reconcile

SpecDedupe == InitDedupe /\ [][NextDedupe]_vars

\* ------------------------------------------------------------------------
\* The rows of one hash h1 from all four collections (at most one each, as
\* the per-feed de-duplication leaves them), next to an ERC-20 row of h2.
\* ------------------------------------------------------------------------
InitOrder ==
  LET call == ExtRec("h1", Tx("u", "x", 0, "0xmint", 1), 1, "0", "")
  IN  /\ pc = "merge"
      /\ address = "u"
      /\ startTs = 0
      /\ explorer = << >> /\ chain = << >>
      /\ externalsRaw = <<>> /\ externals = <<>> /\ erc1155 = <<>>
      /\ nativeRows \in SeqsUpTo({ NativeRow(call, "u", c) : c \in Categories }, 1)
      /\ internalsFeed \in SeqsUpTo({ IntRec("H1", 1, 1, "call") }, 1)
      /\ erc20 \in SeqsUpTo({ TokRec(h, 1, 1, "u", "x", "TOKEN") : h \in {"h1", "h2"} }, 1)
      /\ erc721 \in SeqsUpTo({ TokRec("h1", 1, 1, f, "u", "NFT") : f \in {ZERO, "x"} }, 1)
      /\ nativeConfirmSet = {} /\ mintDomainCandidates = <<>>
      /\ rcpts = << >> /\ activity = <<>> /\ stats = NoStats
      /\ IdleCalls /\ IdleRpc /\ IdlePager /\ IdleMeta

SpecOrder == InitOrder /\ [][NextDedupe]_vars

\* ------------------------------------------------------------------------
\* Letter case of addresses: the queried address as "u" or "U", and one record
\* per feed, each of its own hash, sent by "u", "U" or "x"
\* ------------------------------------------------------------------------
InitCase ==
  \E f1 \in {"u", "U"} :
    LET tx == Tx(f1, "x", 1, "0x", 1)
        senders == {"u", "U", "x"}
    IN  /\ pc = "fetch"
        /\ address \in {"u", "U"}
        /\ startTs = 0
        /\ chain = [ tx |-> [ h \in {"h1"} |-> tx ],
                     receipt |-> [ h \in {"h1"} |-> Receipt("success", <<>>) ],
                     blockTime |-> (1 :> 1),
                     meta |-> << >> ]
        /\ explorer \in
             [ txlist         : SeqsUpTo({ ExtRec("h1", tx, 1, "0", "") }, 1),
               txlistinternal : SeqsUpTo({ [ IntRec("h2", 1, 1, "call") EXCEPT !.from = f ] :
                                             f \in senders }, 1),
               tokentx        : SeqsUpTo({ TokRec("h3", 1, 1, f, "x", "TOKEN") :
                                             f \in senders }, 1),
               tokennfttx     : SeqsUpTo({ TokRec("h4", 1, 1, f, "x", "NFT") :
                                             f \in senders }, 1),
               token1155tx    : {<<>>} ]
        /\ externalsRaw = <<>> /\ internalsFeed = <<>> /\ erc20 = <<>>
        /\ erc721 = <<>> /\ erc1155 = <<>> /\ externals = <<>>
        /\ nativeRows = <<>> /\ nativeConfirmSet = {} /\ mintDomainCandidates = <<>>
        /\ rcpts = << >> /\ activity = <<>> /\ stats = NoStats
        /\ IdleCalls /\ IdleRpc /\ IdlePager /\ IdleMeta

SpecCase == InitCase /\ [][Next]_vars

\* ------------------------------------------------------------------------
\* Explorer records with absent or malformed fields: one such record of the
\* external feed next to a well-formed native send h2.  Absent fields are the
\* values the code's `|| 0` / `|| ''` defaults give them.
\* ------------------------------------------------------------------------
MalformedRecs ==
  { [ ExtRec(h, Tx("u", to, v, inp, bn), ts, "0", "") EXCEPT !.from = "u" ] :
      h \in {"h1", ""}, to \in {"x", ""}, v \in {0, 1, NonNumeric},
      inp \in {"0x", ""}, bn \in {0, 1}, ts \in {0, 1} }

GoodRec == ExtRec("h2", Tx("u", "x", 1, "0x", 1), 1, "0", "")

InitMalformed ==
  /\ pc = "fetch"
  /\ address = "u"
  /\ startTs \in {0, 1}
  /\ chain = [ tx |-> [ h \in {"h1", "h2"} |-> Tx("u", "x", 1, "0x", 1) ],
               receipt |-> [ h \in {"h1", "h2"} |-> Receipt("success", <<>>) ],
               blockTime |-> (1 :> 1),
               meta |-> << >> ]
  /\ \E m \in MalformedRecs :
       explorer \in { [ txlist |-> l, txlistinternal |-> <<>>, tokentx |-> <<>>,
                        tokennfttx |-> <<>>, token1155tx |-> <<>> ] :
                      l \in { << m, GoodRec >>, << GoodRec, m >> } }
  /\ externalsRaw = <<>> /\ internalsFeed = <<>> /\ erc20 = <<>>
  /\ erc721 = <<>> /\ erc1155 = <<>> /\ externals = <<>>
  /\ nativeRows = <<>> /\ nativeConfirmSet = {} /\ mintDomainCandidates = <<>>
  /\ rcpts = << >> /\ activity = <<>> /\ stats = NoStats
  /\ IdleCalls /\ IdleRpc /\ IdlePager /\ IdleMeta

SpecMalformed == InitMalformed /\ [][Next]_vars

\* ------------------------------------------------------------------------
\* One external transaction h1 over every combination of the features the
\* Tier-1 rules look at (failure flag, target, feed hints, function name,
\* selector), next to a token transfer h2 of the ERC-20 feed.
\* ------------------------------------------------------------------------
RuleTargets   == {"cc", "cco", "gm", "x"}
RuleSelectors == {"0x", "0xstake", "0xswap", "0xaddliq", "0xremliq", "0xgm", "0xapprove"}
RuleNames     == {"", "stake", "swap", "addliquidity", "removeliquidity", "gm", "approve"}

InitRules ==
  \E from \in {"u", "x"}, to \in RuleTargets, inp \in RuleSelectors,
     fn \in RuleNames, isError \in {"0", "1"} :
    LET tx == Tx(from, to, 1, inp, 1)
    IN  /\ pc = "fetch"
        /\ address = "u"
        /\ startTs = 0
        /\ chain = [ tx |-> [ h \in {"h1", "h2"} |-> Tx("u", "x", 1, "0x", 1) ],
                     receipt |-> [ h \in {"h1", "h2"} |-> Receipt("success", <<>>) ],
                     blockTime |-> (1 :> 1),
                     meta |-> << >> ]
        /\ explorer \in
             [ txlist         : { << ExtRec("h1", tx, 1, isError, fn) >> },
               txlistinternal : {<<>>},
               tokentx        : SeqsUpTo({ TokRec("h2", 1, 1, "u", "x", "TOKEN") }, 1),
               tokennfttx     : SeqsUpTo({ TokRec("h1", 1, 1, ZERO, "u", sym) :
                                             sym \in {"NFT", "zns"} }, 1),
               token1155tx    : {<<>>} ]
        /\ externalsRaw = <<>> /\ internalsFeed = <<>> /\ erc20 = <<>>
        /\ erc721 = <<>> /\ erc1155 = <<>> /\ externals = <<>>
        /\ nativeRows = <<>> /\ nativeConfirmSet = {} /\ mintDomainCandidates = <<>>
        /\ rcpts = << >> /\ activity = <<>> /\ stats = NoStats
        /\ IdleCalls /\ IdleRpc /\ IdlePager /\ IdleMeta

SpecRules == InitRules /\ [][Next]_vars

\* ------------------------------------------------------------------------
\* One more outgoing transaction than the candidate cap, each a plain send or
\* a call of an unknown selector whose receipt shows a mint to the user.
\* ------------------------------------------------------------------------
CapHashes == << "h1", "h2", "h3", "h4" >>
CapCount  == MAX_MINTDOMAIN_CANDIDATES + 1

InitCap ==
  /\ pc = "fetch"
  /\ address = "u"
  /\ startTs = 0
  /\ chain = [ tx |-> [ h \in Range(SubSeq(CapHashes, 1, CapCount)) |->
                          Tx("u", "x", 1, "0xmint", 1) ],
               receipt |-> [ h \in Range(SubSeq(CapHashes, 1, CapCount)) |->
                               Receipt("success",
                                       << Log("x", TOPIC_ERC721_TRANSFER, ZERO, "u") >>) ],
               blockTime |-> (1 :> 1),
               meta |-> ("x" :> [symbol |-> "NFT", name |-> ""]) ]
  /\ \E inp \in [ 1..CapCount -> {"0x", "0xmint"} ] :
       explorer = [ txlist |-> [ i \in 1..CapCount |->
                                   ExtRec(CapHashes[i], Tx("u", "x", 1, inp[i], 1),
                                          1, "0", "") ],
                    txlistinternal |-> <<>>, tokentx |-> <<>>,
                    tokennfttx |-> <<>>, token1155tx |-> <<>> ]
  /\ externalsRaw = <<>> /\ internalsFeed = <<>> /\ erc20 = <<>>
  /\ erc721 = <<>> /\ erc1155 = <<>> /\ externals = <<>>
  /\ nativeRows = <<>> /\ nativeConfirmSet = {} /\ mintDomainCandidates = <<>>
  /\ rcpts = << >> /\ activity = <<>> /\ stats = NoStats
  /\ IdleCalls /\ IdleRpc /\ IdlePager /\ IdleMeta

SpecCap == InitCap /\ [][Next]_vars

\* ------------------------------------------------------------------------
\* Whole calls of buildActivity on the same feeds.  A call is given the keys
\* the node answers getTransaction for within the retries (rpcTx), the keys
\* earlier calls left in txCache (cacheTx) and the order in which its
\* concurrent fetches complete; receipts and blocks are always answered.
\* Two token transfers whose transactions the external feed lacks.
\* ------------------------------------------------------------------------
MaxCalls == 2

\* a key is served from the cache when present, else by the node
Answered(rpcKeys, cacheKeys) == rpcKeys \cup cacheKeys

Permutations2(S) ==
  { sq \in [1..Cardinality(S) -> S] : \A i, j \in DOMAIN sq : i # j => sq[i] # sq[j] }

buildActivity(ex, ch, address_, start, end, okTx, okBlk, okRc) ==
  LET a     == ToLowerCase(address_)
      eRaw  == fetchPagedAccount(ex.txlist, start, end)
      int   == fetchPagedAccount(ex.txlistinternal, start, end)
      e20   == fetchPagedAccount(ex.tokentx, start, end)
      e721  == fetchPagedAccount(ex.tokennfttx, start, end)
      e1155 == fetchPagedAccount(ex.token1155tx, start, end)
      e1    == hydrateMissingExternalsFromInternals(int, eRaw, HYDRATE_INT_LIMIT,
                                                    okTx, ch.tx)
      e2    == hydrateMissingExternalsFromTokenFeeds(e20, e721, e1155, e1,
                                                     HYDRATE_TOKEN_LIMIT, okTx, ch.tx)
      e3    == fillMissingTimestamps(e2, okBlk, ch.blockTime)
      fp    == firstPass(e3, a, int, e721, e1155)
      got   == getReceiptsSelective(fp.confirm \cup Range(fp.cands), okRc, ch.receipt)
      rows  == receiptPass(fp.rows, fp.confirm, fp.cands, got, e3, a, ch.meta)
  IN  reconcile(rows, int, e20, e721, a)

InitCalls ==
  \E t1 \in {1, WindowEnd}, t2 \in {1, WindowEnd} :
    LET plain(h) == Tx("u", "x", 1, "0x", 1)
    IN  /\ pc = "fetch"
        /\ address = "u"
        /\ startTs = 0
        /\ chain = [ tx |-> [ h \in {"h1", "h2"} |-> plain(h) ],
                     receipt |-> [ h \in {"h1", "h2"} |-> Receipt("success", <<>>) ],
                     blockTime |-> (1 :> 1),
                     meta |-> << >> ]
        /\ explorer = [ txlist         |-> <<>>,
                        txlistinternal |-> <<>>,
                        tokentx        |-> << TokRec("h1", 1, t1, "u", "x", "TOKEN"),
                                              TokRec("h2", 1, t2, "u", "x", "TOKEN") >>,
                        tokennfttx     |-> <<>>,
                        token1155tx    |-> <<>> ]
        /\ externalsRaw = <<>> /\ internalsFeed = <<>> /\ erc20 = <<>>
        /\ erc721 = <<>> /\ erc1155 = <<>> /\ externals = <<>>
        /\ nativeRows = <<>> /\ nativeConfirmSet = {} /\ mintDomainCandidates = <<>>
        /\ rcpts = << >> /\ activity = <<>> /\ stats = NoStats
        /\ IdleCalls /\ IdleRpc /\ IdlePager /\ IdleMeta

\* a request arrives: what the node will answer, what the cache holds and
\* the order the fetches will complete in are the environment's choice
BeginCall ==
  /\ ~pending.busy
  /\ Len(calls) < MaxCalls
  /\ \E rpcTx \in SUBSET (DOMAIN chain.tx), cacheTx \in SUBSET (DOMAIN chain.tx),
        order \in Permutations2(DOMAIN chain.tx) :
       pending' = [ busy |-> TRUE, rpcTx |-> rpcTx, cacheTx |-> cacheTx,
                    order |-> order ]
  /\ UNCHANGED << pipeVars, calls, rpcVars, pageVars, metaVars >>

\* the call resolves with its list
FinishCall ==
  /\ pending.busy
  /\ calls' = Append(calls,
                 [ rpcTx |-> pending.rpcTx, cacheTx |-> pending.cacheTx,
                   order |-> pending.order,
                   list |-> buildActivity(explorer, chain, address, startTs, WindowEnd,
                                          Answered(pending.rpcTx, pending.cacheTx),
                                          DOMAIN chain.blockTime,
                                          DOMAIN chain.receipt) ])
  /\ pending' = NoCall
  /\ UNCHANGED << pipeVars, rpcVars, pageVars, metaVars >>

NextCalls == BeginCall \/ FinishCall

SpecCalls == InitCalls /\ [][NextCalls]_vars

\* ------------------------------------------------------------------------
\* The receipt fetches of concurrent calls: getReceiptsSelective, the limiter
\* limitReceipt = pLimit(RECEIPT_CONCURRENCY) and receiptCache, all shared by
\* the calls of the process.  (getTransactionsSelective, limitTx and txCache
\* are the same code over getTransaction.)  A task is named by its caller and
\* its key and is
\*   "queued"    pushed on the limiter's queue,
\*   "rpc"       running, its request to the node in flight,
\*   "sleep"     running, in the back-off after a failed attempt,
\*   "returned"  its function has returned, the limiter's then-callback not
\*               yet run,
\*   "settled"   the callback has run.
\* ------------------------------------------------------------------------
RECEIPT_CONCURRENCY == 2      \* 12 in the source, scaled to the number of tasks
RECEIPT_RETRIES == 2

Callers == {"c1", "c2"}
\* the hashes a caller passes: distinct, lowercased by buildActivity
Requests == { <<"h1">>, <<"h1", "h2">>, <<"h2", "h1">>, <<"", "h2">> }

RpcState == [ task |-> task, active |-> active, queue |-> queue,
              cache |-> receiptCache, out |-> outMap ]

NewTask(st, tries, got) == [ st |-> st, tries |-> tries, got |-> got ]

\* pLimit: run(), and the function of the task up to its first await
run(S, id) ==
  LET c == id[1]
      k == id[2]
  IN  IF k = ""
        THEN [ S EXCEPT !.active = @ + 1,
                        !.task = (id :> NewTask("returned", 0, FALSE)) @@ @ ]
      ELSE IF k \in S.cache
        THEN [ S EXCEPT !.active = @ + 1,
                        !.task = (id :> NewTask("returned", 0, TRUE)) @@ @,
                        !.out = (c :> (S.out[c] \cup {k})) @@ @ ]
      ELSE [ S EXCEPT !.active = @ + 1,
                      !.task = (id :> NewTask("rpc", 1, FALSE)) @@ @ ]

\* mutant: the limiter runs every task at once
limitAlwaysRun(S, id) == run(S, id)

\* pLimit: `if (active < n) run(); else q.push(run)`
limit(S, id) ==
  IF S.active < RECEIPT_CONCURRENCY
    THEN run(S, id)
    ELSE [ S EXCEPT !.queue = Append(@, id),
                    !.task = (id :> NewTask("queued", 0, FALSE)) @@ @ ]

\* uniq.map(h => limitReceipt(...)): the tasks are handed over in one go
submitAll(S, c, hashes) ==
  LET F[i \in 0..Len(hashes)] ==
        IF i = 0 THEN [ S EXCEPT !.out = (c :> {}) @@ @ ]
        ELSE limit(F[i-1], << c, hashes[i] >>)
  IN  F[Len(hashes)]

\* pLimit: runNext
runNext(S) ==
  LET S1 == [ S EXCEPT !.active = @ - 1 ]
  IN  IF Len(S1.queue) > 0
        THEN run([ S1 EXCEPT !.queue = Tail(@) ], Head(S1.queue))
        ELSE S1

\* mutant: one attempt more
retryAgainOnceMore(tries) == tries <= RECEIPT_RETRIES + 1

\* `for (let i = 0; i <= retries; i++)` after attempt number `tries`
retryAgain(tries) == tries <= RECEIPT_RETRIES

SetRpc(S) ==
  /\ task' = S.task /\ active' = S.active /\ queue' = S.queue
  /\ receiptCache' = S.cache /\ outMap' = S.out

IdlePipe ==
  /\ pc = "fetch" /\ address = "u" /\ startTs = 0
  /\ explorer = << >> /\ chain = << >>
  /\ externalsRaw = <<>> /\ internalsFeed = <<>> /\ erc20 = <<>>
  /\ erc721 = <<>> /\ erc1155 = <<>> /\ externals = <<>>
  /\ nativeRows = <<>> /\ nativeConfirmSet = {} /\ mintDomainCandidates = <<>>
  /\ rcpts = << >> /\ activity = <<>> /\ stats = NoStats

InitRpc == IdlePipe /\ IdleCalls /\ IdleRpc /\ IdlePager /\ IdleMeta

\* a call of buildActivity reaches getReceiptsSelective(hashes)
GetReceipts(c) ==
  /\ c \notin DOMAIN outMap
  /\ \E hashes \in Requests : SetRpc(submitAll(RpcState, c, hashes))
  /\ UNCHANGED << pipeVars, callVars, pageVars, metaVars >>

\* client.getTransactionReceipt resolves: cached, put in the caller's Map
RpcSucceed(id) ==
  /\ id \in DOMAIN task /\ task[id].st = "rpc"
  /\ task' = [ task EXCEPT ![id] = NewTask("returned", @.tries, TRUE) ]
  /\ receiptCache' = receiptCache \cup {id[2]}
  /\ outMap' = [ outMap EXCEPT ![id[1]] = @ \cup {id[2]} ]
  /\ UNCHANGED << pipeVars, callVars, pageVars, metaVars, active, queue >>

\* client.getTransactionReceipt rejects or times out: back-off
RpcFail(id) ==
  /\ id \in DOMAIN task /\ task[id].st = "rpc"
  /\ task' = [ task EXCEPT ![id].st = "sleep" ]
  /\ UNCHANGED << pipeVars, callVars, pageVars, metaVars, active, queue, receiptCache, outMap >>

\* the back-off ends: next attempt, or the loop ends and the task returns
Wake(id) ==
  /\ id \in DOMAIN task /\ task[id].st = "sleep"
  /\ task' = [ task EXCEPT ![id] =
                 IF retryAgain(@.tries) THEN NewTask("rpc", @.tries + 1, FALSE)
                 ELSE NewTask("returned", @.tries, FALSE) ]
  /\ UNCHANGED << pipeVars, callVars, pageVars, metaVars, active, queue, receiptCache, outMap >>

\* the limiter's then-callback: resolve and runNext
Settle(id) ==
  /\ id \in DOMAIN task /\ task[id].st = "returned"
  /\ SetRpc(runNext([ RpcState EXCEPT !.task[id].st = "settled" ]))
  /\ UNCHANGED << pipeVars, callVars, pageVars, metaVars >>

TaskIds == Callers \X {"", "h1", "h2"}

NextRpc ==
  \/ \E c \in Callers : GetReceipts(c)
  \/ \E id \in TaskIds : RpcSucceed(id)
  \/ \E id \in TaskIds : RpcFail(id)
  \/ \E id \in TaskIds : Wake(id)
  \/ \E id \in TaskIds : Settle(id)

SpecRpc == InitRpc /\ [][NextRpc]_vars

\* ------------------------------------------------------------------------
\* pLimit alone: tasks handed to one limiter one after the other, each of
\* which, once started, resolves or rejects; the then-callback or the
\* catch-callback of the limiter then runs.  No receipt is cached, so a
\* started task is in state "rpc" until it resolves or rejects.
\* ------------------------------------------------------------------------
MaxTasks == 3
TaskKeys == << "h1", "h2", "h3", "h4", "h5" >>
IdOf(i) == << "c1", TaskKeys[i] >>
LimitIds == { IdOf(i) : i \in 1..MaxTasks }

\* mutant: the catch-callback rejects without runNext
onRejectedKeepSlot(S, id) == [ S EXCEPT !.task[id].st = "settled" ]

\* `.catch(e => { reject(e); runNext(); })`
onRejected(S, id) == runNext([ S EXCEPT !.task[id].st = "settled" ])

\* limit(fn) is called for the next task
Submit(i) ==
  /\ IdOf(i) \notin DOMAIN task
  /\ \A j \in 1..(i - 1) : IdOf(j) \in DOMAIN task
  /\ SetRpc(limit(RpcState, IdOf(i)))
  /\ UNCHANGED << pipeVars, callVars, pageVars, metaVars >>

\* the promise of fn() is fulfilled
TaskResolves(id) ==
  /\ id \in DOMAIN task /\ task[id].st = "rpc"
  /\ task' = [ task EXCEPT ![id] = NewTask("returned", @.tries, TRUE) ]
  /\ UNCHANGED << pipeVars, callVars, pageVars, metaVars, active, queue, receiptCache, outMap >>

\* the promise of fn() is rejected
TaskRejects(id) ==
  /\ id \in DOMAIN task /\ task[id].st = "rpc"
  /\ task' = [ task EXCEPT ![id].st = "rejected" ]
  /\ UNCHANGED << pipeVars, callVars, pageVars, metaVars, active, queue, receiptCache, outMap >>

\* the limiter's catch-callback: reject and runNext
CatchCallback(id) ==
  /\ id \in DOMAIN task /\ task[id].st = "rejected"
  /\ SetRpc(onRejected(RpcState, id))
  /\ UNCHANGED << pipeVars, callVars, pageVars, metaVars >>

NextLimit ==
  \/ \E i \in 1..MaxTasks : Submit(i)
  \/ \E id \in LimitIds : TaskResolves(id)
  \/ \E id \in LimitIds : TaskRejects(id)
  \/ \E id \in LimitIds : Settle(id)
  \/ \E id \in LimitIds : CatchCallback(id)

\* every started task settles; a callback of a settled promise is run
SpecLimit ==
  /\ InitRpc /\ [][NextLimit]_vars
  /\ \A id \in LimitIds :
       /\ WF_vars(TaskResolves(id) \/ TaskRejects(id))
       /\ WF_vars(Settle(id))
       /\ WF_vars(CatchCallback(id))

\* ------------------------------------------------------------------------
\* fetchPagedAccount as a process: one request per page, each of which the
\* explorer answers or getJSON fails (time-out, HTTP error, bad JSON).
\* The explorer holds the list `feed`, newest first, and cuts it into pages.
\* ------------------------------------------------------------------------
PageSize        == 2      \* opts.pageSize ?? 100, scaled
MaxPages        == 1      \* opts.maxPages ?? 20, scaled
AllTimeMaxPages == 2      \* the 250 pages of startTs === 0, scaled
AbsMaxPages     == 2      \* opts.absMaxPages ?? 300, scaled
MaxPagesStep    == 1      \* the 20 pages added while dynamic, scaled
MaxItems        == 4      \* items the explorer holds for the feed

FeedItem(h, ts) == [ hash |-> h, timeStamp |-> ts ]

\* the lists of at most n items, time stamps never increasing
FeedsNewestFirst(n) ==
  { f \in SeqsUpTo({ FeedItem(h, ts) : h \in {"h1", "h2"}, ts \in 0..(WindowEnd + 1) }, n) :
      \A i \in 1..(Len(f) - 1) : f[i].timeStamp >= f[i+1].timeStamp }

\* page `page` of the list, `size` items a page
pageOf(feed, page, size) ==
  LET lo == (page - 1) * size + 1
      hi == Min2(Len(feed), page * size)
  IN  IF lo > hi THEN <<>> ELSE SubSeq(feed, lo, hi)

oldestOnPage(arr) ==
  CHOOSE m \in { arr[i].timeStamp : i \in 1..Len(arr) } :
    \A i \in 1..Len(arr) : m <= arr[i].timeStamp

\* mutant: the loop never breaks on the page budget
stopAtLimitNever(page, maxPages) == FALSE

\* the test at the head of the loop
stopAtLimit(page, maxPages) == page > maxPages /\ ~(maxPages < AbsMaxPages)
nextMaxPages(page, maxPages) ==
  IF page > maxPages /\ maxPages < AbsMaxPages
    THEN Min2(AbsMaxPages, maxPages + MaxPagesStep)
    ELSE maxPages

\* after the loop: filter to the window, uniqueBy
finishPaging(p) ==
  [ p EXCEPT !.st = "done", !.result = fetchPagedAccount(p.out, p.startTs, WindowEnd) ]

\* mutant: the pages read before the error are dropped
onPageErrorDropAll(p, page) ==
  [ p EXCEPT !.st = "done", !.failedAt = page, !.result = <<>> ]

\* catch { break; }
onPageError(p, page) == finishPaging([ p EXCEPT !.failedAt = page ])

InitPaging ==
  /\ IdlePipe /\ IdleCalls /\ IdleRpc /\ IdleMeta
  /\ \E f \in FeedsNewestFirst(MaxItems), s \in 0..WindowEnd :
       pager = [ st |-> "loop", feed |-> f, startTs |-> s, page |-> 1,
                 maxPages |-> IF s = 0 THEN (IF MaxPages > AllTimeMaxPages
                                              THEN MaxPages ELSE AllTimeMaxPages)
                              ELSE MaxPages,
                 out |-> <<>>, requests |-> 0, failedAt |-> 0, result |-> <<>> ]

\* page > maxPages and no more pages may be added: break
PageLimit ==
  /\ pager.st = "loop"
  /\ stopAtLimit(pager.page, pager.maxPages)
  /\ pager' = finishPaging(pager)
  /\ UNCHANGED << pipeVars, callVars, rpcVars, metaVars >>

\* getJSON answers: the page is appended, and the loop ends or goes on
PageFetched ==
  /\ pager.st = "loop"
  /\ ~stopAtLimit(pager.page, pager.maxPages)
  /\ LET arr == pageOf(pager.feed, pager.page, PageSize)
         p1  == [ pager EXCEPT !.maxPages = nextMaxPages(pager.page, @),
                               !.requests = @ + 1 ]
     IN  pager' =
           IF Len(arr) = 0 THEN finishPaging(p1)
           ELSE LET p2 == [ p1 EXCEPT !.out = @ \o arr ]
                IN  IF oldestOnPage(arr) <= pager.startTs \/ Len(arr) < PageSize
                      THEN finishPaging(p2)
                      ELSE [ p2 EXCEPT !.page = @ + 1 ]
  /\ UNCHANGED << pipeVars, callVars, rpcVars, metaVars >>

\* getJSON throws: time-out (abort), HTTP status not ok, body not JSON
PageFailed ==
  /\ pager.st = "loop"
  /\ ~stopAtLimit(pager.page, pager.maxPages)
  /\ pager' = onPageError([ pager EXCEPT !.maxPages = nextMaxPages(pager.page, @),
                                         !.requests = @ + 1 ], pager.page)
  /\ UNCHANGED << pipeVars, callVars, rpcVars, metaVars >>

NextPaging == PageLimit \/ PageFetched \/ PageFailed

SpecPaging == InitPaging /\ [][NextPaging]_vars

\* every request settles: getJSON aborts its fetch after timeoutMs, so the
\* awaiting loop is always resumed
\* The hashes play no part in the loop: the feeds of one hash.
InitPagingOneHash ==
  /\ IdlePipe /\ IdleCalls /\ IdleRpc /\ IdleMeta
  /\ \E f \in FeedsNewestFirst(MaxItems), s \in 0..WindowEnd :
       /\ \A i \in 1..Len(f) : f[i].hash = "h1"
       /\ pager = [ st |-> "loop", feed |-> f, startTs |-> s, page |-> 1,
                    maxPages |-> IF s = 0 THEN (IF MaxPages > AllTimeMaxPages
                                                 THEN MaxPages ELSE AllTimeMaxPages)
                                 ELSE MaxPages,
                    out |-> <<>>, requests |-> 0, failedAt |-> 0, result |-> <<>> ]

SpecPagingFair == InitPagingOneHash /\ [][NextPaging]_vars /\ WF_vars(NextPaging)

\* ------------------------------------------------------------------------
\* get721Meta as a process.  A promise is named after the call that created
\* it; metaCacheLock maps an address to the promise in flight, metaCache to
\* the finished meta.  Contract "gm" answers symbol "zns" and name "my.zen"
\* when its read succeeds.
\* ------------------------------------------------------------------------
MetaCallers == {"m1", "m2", "m3"}
MetaAddrs   == {"gm", "GM"}
Inc(f, k) == IF k \in DOMAIN f THEN [ f EXCEPT ![k] = @ + 1 ] ELSE f @@ (k :> 1)
Count(f, k) == IF k \in DOMAIN f THEN f[k] ELSE 0

\* mutant: metaCacheLock not consulted
lockedNever(S, a) == FALSE

\* metaCacheLock.has(addr)
locked(S, a) == a \in DOMAIN S.lock

\* a call of get721Meta(address): up to the first await of the new promise
get721Meta(S, c, address_) ==
  LET a == ToLowerCase(address_)
  IN  IF a \in DOMAIN S.cache
        THEN [ S EXCEPT !.call = @ @@ (c :> [ addr |-> a, st |-> "done", on |-> "",
                                              val |-> S.cache[a] ]) ]
      ELSE IF locked(S, a)
        THEN [ S EXCEPT !.call = @ @@ (c :> [ addr |-> a, st |-> "await",
                                              on |-> S.lock[a],
                                              val |-> [ symbol |-> "", name |-> "" ] ]) ]
      ELSE [ S EXCEPT !.call = @ @@ (c :> [ addr |-> a, st |-> "await", on |-> c,
                                            val |-> [ symbol |-> "", name |-> "" ] ]),
                      !.promise = @ @@ (c :> [ addr |-> a, st |-> "symbol",
                                               symbol |-> "", name |-> "" ]),
                      !.lock = [ k \in DOMAIN @ \cup {a} |-> IF k = a THEN c ELSE @[k] ],
                      !.reads.symbol = Inc(@, a) ]

InitMeta == IdlePipe /\ IdleCalls /\ IdleRpc /\ IdlePager /\ IdleMeta

GetMeta(c) ==
  /\ c \notin DOMAIN meta721.call
  /\ \E address_ \in MetaAddrs : meta721' = get721Meta(meta721, c, address_)
  /\ UNCHANGED << pipeVars, callVars, rpcVars, pageVars >>

\* the symbol read settles (a failure is swallowed); the name read is issued
SymbolRead(p) ==
  /\ p \in DOMAIN meta721.promise /\ meta721.promise[p].st = "symbol"
  /\ \E ok \in BOOLEAN :
       meta721' = [ meta721 EXCEPT
                      !.promise[p].symbol = IF ok THEN "zns" ELSE "",
                      !.promise[p].st = "name",
                      !.reads.name = Inc(@, meta721.promise[p].addr) ]
  /\ UNCHANGED << pipeVars, callVars, rpcVars, pageVars >>

\* the name read settles: metaCache.set, metaCacheLock.delete, resolve
NameRead(p) ==
  /\ p \in DOMAIN meta721.promise /\ meta721.promise[p].st = "name"
  /\ \E ok \in BOOLEAN :
       LET a == meta721.promise[p].addr
           m == [ symbol |-> meta721.promise[p].symbol,
                  name |-> IF ok THEN "my.zen" ELSE "" ]
       IN  meta721' = [ meta721 EXCEPT
                          !.promise[p].name = m.name,
                          !.promise[p].st = "resolved",
                          !.cache = [ k \in DOMAIN @ \cup {a} |-> IF k = a THEN m ELSE @[k] ],
                          !.lock = [ k \in DOMAIN @ \ {a} |-> @[k] ] ]
  /\ UNCHANGED << pipeVars, callVars, rpcVars, pageVars >>

\* a caller awaiting a resolved promise continues with its value
ResumeMeta(c) ==
  /\ c \in DOMAIN meta721.call /\ meta721.call[c].st = "await"
  /\ LET p == meta721.promise[meta721.call[c].on]
     IN  /\ p.st = "resolved"
         /\ meta721' = [ meta721 EXCEPT
                           !.call[c].st = "done",
                           !.call[c].val = [ symbol |-> p.symbol, name |-> p.name ] ]
  /\ UNCHANGED << pipeVars, callVars, rpcVars, pageVars >>

NextMeta ==
  \/ \E c \in MetaCallers : GetMeta(c)
  \/ \E p \in MetaCallers : SymbolRead(p)
  \/ \E p \in MetaCallers : NameRead(p)
  \/ \E c \in MetaCallers : ResumeMeta(c)

SpecMeta == InitMeta /\ [][NextMeta]_vars

TypeOK == pc \in {"fetch", "hydrate", "tier1", "tier2", "merge", "stats", "done",
                  "rejected"}


\* ------------------------------------------------------------------------
\* Properties
\* ------------------------------------------------------------------------
Finished == pc \in {"stats", "done"}      \* buildActivity has returned
LowerHashes == {"h1", "h2"}
RowsFor(h) == { i \in 1..Len(activity) : HashKey(activity[i]) = h }
RowFor(h) == activity[CHOOSE i \in RowsFor(h) : TRUE]
\* the candidate rows handed to the de-duplication
AllRows == nativeRows \o internalRows(internalsFeed, addr)
             \o token20Rows(erc20, addr) \o token721Rows(erc721, addr)

\* C1: no two rows of the list buildActivity returns have the same
\* lowercased hash, whatever the feeds contain.
C1_HashUnique ==
  \A i, j \in 1..Len(activity) :
    i # j => HashKey(activity[i]) # HashKey(activity[j])

\* a hash twice in the internal page in two letter cases, also in the
\* external page, and one row for it in the result
C1_Witness ==
  /\ pc = "done"
  /\ \E i, j \in 1..Len(explorer.txlistinternal) :
       /\ i # j
       /\ explorer.txlistinternal[i].hash # explorer.txlistinternal[j].hash
       /\ HashKey(explorer.txlistinternal[i]) = HashKey(explorer.txlistinternal[j])
       /\ HasKey(externalsRaw, HashKey(explorer.txlistinternal[i]))
       /\ Cardinality(RowsFor(HashKey(explorer.txlistinternal[i]))) = 1

\* C2: every counter of buildStats is the number of rows of the activity
\* list with kind native, direction out and the counter's category (ccCount
\* counts cc and cco).
CountRows(cats) ==
  Cardinality({ i \in 1..Len(activity) :
                  /\ activity[i].kind = "native"
                  /\ activity[i].direction = "out"
                  /\ activity[i].category \in cats })

C2_CounterFidelity ==
  pc = "done" =>
    /\ stats.stakeActions = CountRows({"stake"})
    /\ stats.nativeSends = CountRows({"native_send"})
    /\ stats.nftMints = CountRows({"nft_mint"})
    /\ stats.domainMints = CountRows({"domain_mint"})
    /\ stats.gmCount = CountRows({"gm"})
    /\ stats.ccCount = CountRows({"cc", "cco"})
    /\ stats.swapCount = CountRows({"swap"})
    /\ stats.addLiquidityCount = CountRows({"add_liquidity"})
    /\ stats.removeLiquidityCount = CountRows({"remove_liquidity"})
    /\ stats.approveCount = CountRows({"approve"})

\* a counted row next to rows that are not counted
C2_Witness ==
  /\ pc = "done"
  /\ stats.nativeSends = 1
  /\ Len(activity) = 2
  /\ \E i \in 1..Len(activity) : activity[i].kind # "native"

\* C7: the list buildActivity returns is ordered by timeMs descending.
C7_SortedByTimeDesc ==
  \A i \in 1..(Len(activity) - 1) : activity[i].timeMs >= activity[i+1].timeMs

\* the sort had to reorder, and a row without timestamp comes last
C7_Witness ==
  /\ pc = "done"
  /\ Len(activity) >= 2
  /\ activity # dedupe(AllRows)
  /\ activity[Len(activity)].timeMs = 0
  /\ activity[1].timeMs > 0


\* the hashes of the internal-transfer feed that the external feed lacks
InternalOnly == { h \in LowerHashes : HasKey(internalsFeed, h) /\ ~HasKey(externalsRaw, h) }

FetchedHashes ==
  { h \in LowerHashes :
      \/ HasKey(externalsRaw, h) \/ HasKey(internalsFeed, h) \/ HasKey(erc20, h)
      \/ HasKey(erc721, h) \/ HasKey(erc1155, h) }

C4_EveryHashOneRow ==
  Finished => \A h \in FetchedHashes : Cardinality(RowsFor(h)) = 1


Outgoing(t) == ToLowerCase(t.from) = addr
\* no selector / name family of Tier 1 matches
NoQuickFamily(t) ==
  ~(isStakeQuick(t) \/ isSwapQuick(t) \/ isAddLiquidityQuick(t)
      \/ isRemoveLiquidityQuick(t) \/ isGMQuick(t) \/ isApproveQuick(t))
NoAllowList(t) == ToLowerCase(t.to) \notin (CC_CONTRACTS \cup {CCO_TARGET} \cup GM_CONTRACTS)
PlainTarget(t) == t.to # "" /\ ToLowerCase(t.to) \notin {"z", "pre"}
\* the token feeds show a mint of this hash to the queried address
FeedMintHint(h) ==
  \/ \E i \in 1..Len(erc721) :
       HashKey(erc721[i]) = h /\ ToLowerCase(erc721[i].from) = ZERO
         /\ ToLowerCase(erc721[i].to) = addr
  \/ \E i \in 1..Len(erc1155) :
       HashKey(erc1155[i]) = h /\ ToLowerCase(erc1155[i].from) = ZERO
         /\ ToLowerCase(erc1155[i].to) = addr
\* on the node the transaction succeeded with zero logs
ZeroLogSuccess(h) ==
  /\ h \in DOMAIN chain.receipt
  /\ chain.receipt[h].status = "success"
  /\ Len(chain.receipt[h].logs) = 0

\* C8 as stated: an outgoing transaction with value > 0 and empty calldata
\* that succeeded with zero logs is output as native_send.
C8_Original ==
  Finished =>
    \A i \in 1..Len(externals) :
      LET t == externals[i]
          h == HashKey(t)
      IN  (h # "" /\ Outgoing(t) /\ t.value > 0 /\ t.input \in {"", "0x"}
             /\ ZeroLogSuccess(h))
            => RowFor(h).category = "native_send"

\* C8 amended: ... provided the feed does not flag it failed, its `to` is a
\* non-null, non-precompile address outside the allow-lists, the token feeds
\* show no mint for its hash, its functionName matches no Tier-1 family and
\* its receipt was obtained.
C8_NativeSendConfirmed ==
  Finished =>
    \A i \in 1..Len(externals) :
      LET t == externals[i]
          h == HashKey(t)
      IN  (h # "" /\ Outgoing(t) /\ t.value > 0 /\ t.input \in {"", "0x"}
             /\ ZeroLogSuccess(h)
             /\ t.isError # "1" /\ PlainTarget(t) /\ NoAllowList(t)
             /\ ~FeedMintHint(h) /\ NoQuickFamily(t)
             /\ h \in DOMAIN rcpts)
            => (RowFor(h).kind = "native" /\ RowFor(h).category = "native_send")

C8_Witness ==
  /\ pc = "done"
  /\ \E i \in 1..Len(externals) :
       LET t == externals[i]
           h == HashKey(t)
       IN  /\ h # "" /\ Outgoing(t) /\ t.value > 0 /\ t.input = "0x"
           /\ ZeroLogSuccess(h) /\ h \in DOMAIN rcpts
           /\ HasKey(internalsFeed, h)
           /\ RowFor(h).category = "native_send"

\* the receipt on the node has an ERC-721 Transfer log from the zero address
\* to the queried address
MintLogs(h) ==
  IF h \in DOMAIN chain.receipt
    THEN { k \in 1..Len(chain.receipt[h].logs) :
             /\ chain.receipt[h].logs[k].topic0 = TOPIC_ERC721_TRANSFER
             /\ chain.receipt[h].logs[k].from = ZERO
             /\ chain.receipt[h].logs[k].to = addr }
    ELSE {}
\* the resolved symbol or name of an emitting contract is a domain text
MetaIsDomain(h) ==
  \E k \in MintLogs(h) :
    LET c == chain.receipt[h].logs[k].address
    IN  c \in DOMAIN chain.meta
          /\ (looksLikeDomainText(chain.meta[c].symbol)
               \/ looksLikeDomainText(chain.meta[c].name))
\* the ERC-721 feed shows the mint with a domain symbol or name
FeedDomainHint(h) ==
  \E i \in 1..Len(erc721) :
    /\ HashKey(erc721[i]) = h /\ ToLowerCase(erc721[i].from) = ZERO
    /\ ToLowerCase(erc721[i].to) = addr
    /\ (looksLikeDomainText(erc721[i].tokenSymbol)
         \/ looksLikeDomainText(erc721[i].tokenName))

\* C9 as stated: an outgoing transaction whose receipt has an ERC-721
\* Transfer log from the zero address to the queried address is output as
\* nft_mint, or as domain_mint when the resolved metadata matches.
C9_Original ==
  Finished =>
    \A i \in 1..Len(externals) :
      LET t == externals[i]
          h == HashKey(t)
      IN  (h # "" /\ Outgoing(t) /\ MintLogs(h) # {})
            => RowFor(h).category =
                 (IF MetaIsDomain(h) THEN "domain_mint" ELSE "nft_mint")

\* C9 amended: ... provided Tier 1 classifies it by no rule other than the
\* mint hints (no failure flag, no allow-listed `to`, no selector or name
\* family, no creation trace), it has non-empty calldata and a non-null,
\* non-precompile `to`, and, unless the token feeds hint the mint, it is in
\* the candidate set and its receipt was obtained and reports success.  With
\* a feed hint the category follows the hint; without, it is domain_mint
\* exactly when the functionName, selector or a log topic is a domain one or
\* the resolved metadata matches.
C9_Preconditions(t) ==
  LET h == HashKey(t)
  IN  /\ h # "" /\ Outgoing(t) /\ MintLogs(h) # {}
      /\ t.isError # "1" /\ PlainTarget(t) /\ NoAllowList(t) /\ NoQuickFamily(t)
      /\ t.input \notin {"", "0x"}
      /\ ~hintedCreation(t, addr, internalsFeed)
      /\ (FeedMintHint(h)
           \/ (/\ h \in Range(mintDomainCandidates)
               /\ h \in DOMAIN rcpts
               /\ chain.receipt[h].status = "success"))

C9_MintDetected ==
  Finished =>
    \A i \in 1..Len(externals) :
      LET t == externals[i]
          h == HashKey(t)
      IN  C9_Preconditions(t) =>
            /\ RowFor(h).kind = "native"
            /\ RowFor(h).category =
                 (IF FeedMintHint(h)
                    THEN (IF FeedDomainHint(h) THEN "domain_mint" ELSE "nft_mint")
                    ELSE IF \/ t.functionName \in {"register", "domain", "name", "zns"}
                            \/ t.input \in DOMAIN_SELECTORS
                            \/ \E k \in 1..Len(chain.receipt[h].logs) :
                                 chain.receipt[h].logs[k].topic0 \in DOMAIN_TOPICS
                            \/ MetaIsDomain(h)
                           THEN "domain_mint" ELSE "nft_mint")

\* a mint found by the receipt alone, and one of a naming service
C9_Witness ==
  /\ pc = "done"
  /\ \E i \in 1..Len(externals) :
       LET t == externals[i]
           h == HashKey(t)
       IN  /\ C9_Preconditions(t) /\ ~FeedMintHint(h)
           /\ h \in Range(mintDomainCandidates)
           /\ RowFor(h).category = "nft_mint"

\* C10 as stated: every transaction whose `to` is in the GM allow-list is
\* output with category gm.
C10_Original ==
  Finished =>
    \A i \in 1..Len(externals) :
      LET t == externals[i]
          h == HashKey(t)
      IN  (h # "" /\ ToLowerCase(t.to) \in GM_CONTRACTS)
            => RowFor(h).category = "gm"

\* C10 amended: every transaction whose `to` is in the GM allow-list and
\* that the feed does not flag as failed is output with category gm,
\* whatever its calldata, functionName or value.
C10_GmAllowList ==
  Finished =>
    \A i \in 1..Len(externals) :
      LET t == externals[i]
          h == HashKey(t)
      IN  (h # "" /\ ToLowerCase(t.to) \in GM_CONTRACTS /\ t.isError # "1")
            => (RowFor(h).kind = "native" /\ RowFor(h).category = "gm")

\* a stake call with value to the GM contract, also hinted as a mint
C10_Witness ==
  /\ pc = "done"
  /\ \E i \in 1..Len(externals) :
       LET t == externals[i]
           h == HashKey(t)
       IN  /\ ToLowerCase(t.to) \in GM_CONTRACTS
           /\ t.input = "0xstake" /\ t.value > 0
           /\ FeedMintHint(h)
           /\ RowFor(h).category = "gm"


\* the priority table of the claim
ClaimPriority(r) ==
  CASE r.kind = "native" /\ r.category = "fail"          -> 125
    [] r.kind = "native" /\ r.category = "domain_mint"   -> 120
    [] r.kind = "native" /\ r.category = "cc"            -> 115
    [] r.kind = "native" /\ r.category = "cco"           -> 112
    [] r.kind = "native" /\ r.category = "stake"         -> 105
    [] r.kind = "native" /\ r.category = "swap"          -> 104
    [] r.kind = "native" /\ r.category \in {"add_liquidity", "remove_liquidity"} -> 103
    [] r.kind = "native" /\ r.category = "gm"            -> 100
    [] r.kind = "native" /\ r.category = "native_send"   -> 95
    [] r.kind = "native" /\ r.category = "approve"       -> 93
    [] r.kind = "native" /\ r.category = "nft_mint"      -> 90
    [] r.kind = "token"  /\ r.category = "nft_mint"      -> 85
    [] r.kind = "native" /\ r.category = "other"         -> 80
    [] r.kind = "token"  /\ r.category = NoCat           -> 20
    [] r.kind = "internal"                               -> 10

CandidatesOf(h) == { c \in Range(AllRows) : HashKey(c) = h }

\* C6: for each hash the reconciliation keeps a candidate row of the highest
\* priority of the table; a native domain_mint row wins over an unclassified
\* token row, and a token nft_mint row over a native other row.
C6_PriorityKept ==
  pc = "stats" =>
    \A h \in LowerHashes :
      CandidatesOf(h) # {} =>
        /\ Cardinality(RowsFor(h)) = 1
        /\ RowFor(h) \in CandidatesOf(h)
        /\ \A c \in CandidatesOf(h) : ClaimPriority(c) <= ClaimPriority(RowFor(h))
        /\ (\E c \in CandidatesOf(h) : c.kind = "native" /\ c.category = "domain_mint")
             => ~(RowFor(h).kind = "token" /\ RowFor(h).category = NoCat)
        /\ (\E c \in CandidatesOf(h) : c.kind = "token" /\ c.category = "nft_mint")
             => ~(RowFor(h).kind = "native" /\ RowFor(h).category = "other")

\* both cases of the claim in one result: the token mint kept against a
\* native other row, the native domain_mint kept against an ERC-20 row
C6_Witness ==
  /\ pc = "stats"
  /\ \E c \in CandidatesOf("h1") : c.kind = "native" /\ c.category = "other"
  /\ RowFor("h1").kind = "token" /\ RowFor("h1").category = "nft_mint"
  /\ \E c \in CandidatesOf("h2") : c.kind = "token" /\ c.category = NoCat
  /\ RowFor("h2").kind = "native" /\ RowFor("h2").category = "domain_mint"


\* C11: the receipt pass changes the category only of native rows that the
\* first pass left as other; a row classified by a Tier-1 rule keeps exactly
\* that category.
C11_Tier1Authoritative ==
  [][ pc = "tier2" =>
        /\ Len(nativeRows') = Len(nativeRows)
        /\ \A i \in 1..Len(nativeRows) :
             nativeRows[i].category # "other"
               => nativeRows'[i].category = nativeRows[i].category ]_vars

\* after the receipt pass: an outgoing stake call whose receipt, on the node,
\* succeeded with a mint log to the queried address, still a stake row
C11_Witness ==
  /\ pc = "merge"
  /\ \E i \in 1..Len(nativeRows) :
       LET h == HashKey(nativeRows[i])
       IN  /\ nativeRows[i].category = "stake"
           /\ nativeRows[i].direction = "out"
           /\ MintLogs(h) # {}
           /\ chain.receipt[h].status = "success"


\* the `from` field of the feed record (or hydrated record) a row was built
\* from
SourceFrom(r) ==
  LET h == HashKey(r)
  IN  IF r.kind = "native" THEN externals[LastIndex(externals, h)].from
      ELSE IF r.kind = "internal" THEN internalsFeed[LastIndex(internalsFeed, h)].from
      ELSE IF r.standard = "erc20" THEN erc20[LastIndex(erc20, h)].from
      ELSE erc721[LastIndex(erc721, h)].from

\* C12: a row's direction is out exactly when the from field of its record
\* equals the queried address up to letter case, and in otherwise, for
\* native, internal and token rows.
C12_DirectionCaseInsensitive ==
  Finished =>
    \A i \in 1..Len(activity) :
      activity[i].direction =
        (IF ToLowerCase(SourceFrom(activity[i])) = ToLowerCase(address)
           THEN "out" ELSE "in")

\* the address queried in upper case, a native and a token row sent by it in
\* lower case (out), and an internal row of another sender (in)
C12_Witness ==
  /\ pc = "done"
  /\ address = "U"
  /\ \E i, j, k \in 1..Len(activity) :
       /\ activity[i].kind = "native" /\ SourceFrom(activity[i]) = "u"
       /\ activity[i].direction = "out"
       /\ activity[j].kind = "token" /\ SourceFrom(activity[j]) = "u"
       /\ activity[j].direction = "out"
       /\ activity[k].kind = "internal" /\ activity[k].direction = "in"


InFlight(k) == { id \in DOMAIN task : id[2] = k /\ task[id].st = "rpc" }

\* C14 as stated: at most one getTransactionReceipt request for a given hash
\* is in flight at any time, over all callers.
C14_SingleFlight ==
  \A k \in {"h1", "h2"} : Cardinality(InFlight(k)) <= 1


\* the tasks running under the limiter: started, then-callback not yet run
Running == { id \in DOMAIN task : task[id].st \in {"rpc", "sleep", "returned"} }

\* C15: at most RECEIPT_CONCURRENCY receipt-fetch tasks run at any moment,
\* over all callers; the limiter's counter is the number of running tasks;
\* and a queued task starts only in the step in which a running task
\* settles.
C15_LimiterBound ==
  [][ /\ Cardinality(Running') <= RECEIPT_CONCURRENCY
      /\ active' = Cardinality(Running')
      /\ \A id \in DOMAIN task :
           (task[id].st = "queued" /\ task'[id].st # "queued")
             => \E other \in DOMAIN task :
                  task[other].st = "returned" /\ task'[other].st = "settled" ]_vars

\* the limiter full with the tasks of two callers, another task waiting
C15_Witness ==
  /\ active = RECEIPT_CONCURRENCY
  /\ \E a \in Running, b \in Running : a[1] = "c1" /\ b[1] = "c2"
  /\ Len(queue) > 0
  /\ \E id \in DOMAIN task : task[id].st = "settled"


\* the tasks whose function has returned
Ended == { id \in DOMAIN task : task[id].st \in {"returned", "settled"} }

C17_MalformedNeverRejects ==
  /\ pc # "rejected"
  /\ Finished => \E i \in 1..Len(activity) : HashKey(activity[i]) = "h2"


\* the items of pages 1..k-1, as the explorer holds them
PagesBefore(k) == Take(pager.feed, (k - 1) * PageSize)

\* C18: when the request for page k fails, no further page is requested, the
\* call returns (it does not throw), and what it returns is the in-window
\* items of pages 1..k-1: each of them is in the result under its hash, and
\* nothing else is.
C18_PartialOnPageFailure ==
  (pager.st # "idle" /\ pager.failedAt > 0) =>
     LET k    == pager.failedAt
         seen == PagesBefore(k)
         inW  == { i \in 1..Len(seen) : InWindow(seen[i], pager.startTs, WindowEnd) }
     IN  /\ pager.st = "done"
         /\ pager.requests = k
         /\ \A i \in inW : \E j \in 1..Len(pager.result) :
               HashKey(pager.result[j]) = HashKey(seen[i])
         /\ \A j \in 1..Len(pager.result) : \E i \in inW : pager.result[j] = seen[i]

C18_Witness ==
  /\ pager.st = "done" /\ pager.failedAt = 2
  /\ Len(pager.result) = 2
  /\ Len(pager.feed) > PageSize

\* the rows buildStats may count, and how many of them carry a category
Eligible ==
  { i \in 1..Len(activity) : /\ activity[i].kind = "native"
                             /\ activity[i].direction = "out"
                             /\ activity[i].category # "fail" }
EligibleWith(cat) == Cardinality({ i \in Eligible : activity[i].category = cat })
CountedCategories ==
  { "stake", "native_send", "nft_mint", "domain_mint", "gm", "cc", "cco", "swap",
    "add_liquidity", "remove_liquidity", "approve" }
StatsTotal ==
  stats.stakeActions + stats.nativeSends + stats.nftMints + stats.domainMints
  + stats.gmCount + stats.ccCount + stats.swapCount + stats.addLiquidityCount
  + stats.removeLiquidityCount + stats.approveCount

\* C19: the counters of buildStats add up to the outgoing, not failed, native
\* rows that carry a counted category, so that no incoming, failed, token or
\* internal row adds to any counter; ccCount is count(cc) + count(cco) over
\* those rows, and no counter exceeds the number of those rows.
C19_OnlyOutgoingNativeCounted ==
  pc = "done" =>
    /\ StatsTotal = Cardinality({ i \in Eligible :
                                   activity[i].category \in CountedCategories })
    /\ stats.ccCount = EligibleWith("cc") + EligibleWith("cco")
    /\ \A cat \in CountedCategories : EligibleWith(cat) <= StatsTotal
    /\ (Eligible = {}) => (StatsTotal = 0)

\* a relay-target row is the one row counted, next to an outgoing token row
C19_Witness ==
  /\ pc = "done"
  /\ stats.ccCount = 1 /\ EligibleWith("cco") = 1
  /\ StatsTotal = 1
  /\ \E i \in 1..Len(activity) :
       activity[i].kind = "token" /\ activity[i].direction = "out"

\* the twelve Tier-1 rules in the order of the specification, each with the
\* category it gives
RuleCategories ==
  << "fail", "cc", "cco", "gm", "domain_mint", "nft_mint", "stake", "swap",
     "add_liquidity", "remove_liquidity", "gm", "approve" >>

RuleMatches(k, t) ==
  LET to == ToLowerCase(t.to)
      h  == HashKey(t)
  IN  CASE k = 1  -> isFailedByTxlist(t)
        [] k = 2  -> to \in CC_CONTRACTS
        [] k = 3  -> to = CCO_TARGET
        [] k = 4  -> to \in GM_CONTRACTS
        [] k = 5  -> h \in domainTxFromFeed(erc721, addr)
        [] k = 6  -> h \in nftMintFromFeed(erc721, erc1155, addr)
        [] k = 7  -> isStakeQuick(t)
        [] k = 8  -> isSwapQuick(t)
        [] k = 9  -> isAddLiquidityQuick(t)
        [] k = 10 -> isRemoveLiquidityQuick(t)
        [] k = 11 -> isGMQuick(t)
        [] k = 12 -> isApproveQuick(t)

Matching(t) == { k \in 1..Len(RuleCategories) : RuleMatches(k, t) }
FirstMatch(t) == CHOOSE k \in Matching(t) : \A j \in Matching(t) : k <= j

\* C20: after the first pass, the row of every external transaction that
\* matches at least one of the twelve rules carries the category of the
\* earliest rule it matches.
C20_FirstMatchingRuleWins ==
  pc = "tier2" =>
    \A i \in 1..Len(externals) :
      Matching(externals[i]) # {} =>
        nativeRows[i].category = RuleCategories[FirstMatch(externals[i])]

\* a transaction to the relay target with an NFT-mint hint, a swap selector
\* and an approve name: four rules match, the relay-target rule is first
C20_Witness ==
  /\ pc = "tier2"
  /\ Len(externals) >= 1
  /\ Matching(externals[1]) = {3, 6, 8, 12}
  /\ nativeRows[1].category = "cco"

\* the receipt of h was obtained, reports success and has no log
ConfirmedPlain(h) ==
  /\ h \in DOMAIN rcpts
  /\ rcpts[h].status = "success"
  /\ Len(rcpts[h].logs) = 0

\* C21: every row output as native_send is an outgoing native row of a
\* transaction with a non-null, non-precompile `to`, value > 0 and empty
\* calldata whose receipt was obtained, succeeded and has no log; and a
\* native-send candidate whose receipt is missing, failed or has a log is
\* output as other.
C21_NativeSendOnlyConfirmed ==
  Finished =>
    /\ \A i \in 1..Len(activity) :
         activity[i].category = "native_send" =>
           /\ activity[i].kind = "native" /\ activity[i].direction = "out"
           /\ ConfirmedPlain(HashKey(activity[i]))
           /\ \E j \in 1..Len(externals) :
                LET t == externals[j]
                IN  /\ HashKey(t) = HashKey(activity[i])
                    /\ t.to # "" /\ ToLowerCase(t.to) \notin {"z", "pre"}
                    /\ t.value > 0 /\ t.input \in {"", "0x"}
    /\ \A h \in nativeConfirmSet \ {""} :
         ~ConfirmedPlain(h) =>
           (RowFor(h).kind = "native" /\ RowFor(h).category = "other")

\* one candidate confirmed, another left as other because its receipt was
\* not obtained
C21_Witness ==
  /\ pc = "done"
  /\ \E i \in 1..Len(activity) : activity[i].category = "native_send"
  /\ \E h \in nativeConfirmSet \ {""} :
       /\ h \notin DOMAIN rcpts
       /\ RowFor(h).category = "other"

\* the explorer reports, inside the window, a transfer of hash h from the zero
\* address to the queried address in the ERC-721 or the ERC-1155 feed
FeedReportsMint(h) ==
  \E f \in {"tokennfttx", "token1155tx"} :
    \E i \in 1..Len(explorer[f]) :
      /\ HashKey(explorer[f][i]) = h
      /\ InWindow(explorer[f][i], startTs, WindowEnd)
      /\ IsMintToUser(explorer[f][i], addr)

\* C22: whenever the ERC-721 or ERC-1155 feed reports such a transfer for h,
\* the native row of h that rules 1 to 5 do not match has category nft_mint,
\* also when the feed reports further transfers for h.
C22_FeedMintHinted ==
  Finished =>
    \A i \in 1..Len(externals) :
      LET t == externals[i]
          h == HashKey(t)
      IN  (h # "" /\ FeedReportsMint(h) /\ Matching(t) \cap 1..5 = {})
            => (RowFor(h).kind = "native" /\ RowFor(h).category = "nft_mint")

\* C23: after both hydration stages the external list holds each lowercased
\* hash at most once.
C23_HydrationKeepsHashesUnique ==
  pc \notin {"fetch", "hydrate"} =>
    \A i, j \in 1..Len(externals) :
      HashKey(externals[i]) = HashKey(externals[j]) => i = j

\* a hash missing from the external feed that the explorer reports twice in
\* the internal feed and once in a token feed, hydrated
C23_Witness ==
  /\ pc = "tier1"
  /\ \E h \in LowerHashes :
       /\ ~HasKey(externalsRaw, h)
       /\ Cardinality({ i \in 1..Len(explorer.txlistinternal) :
                          HashKey(explorer.txlistinternal[i]) = h }) = 2
       /\ HasKey(erc20, h) \/ HasKey(erc721, h) \/ HasKey(erc1155, h)
       /\ HasKey(externals, h)

\* an outgoing call of an unknown selector to a contract, left as other by
\* the first pass
UnknownOutgoingCall(t) ==
  /\ Matching(t) = {}
  /\ ~isNativeSendCandidate(t, addr)
  /\ ~hintedCreation(t, addr, internalsFeed)
  /\ ToLowerCase(t.from) = addr
  /\ t.to # "" /\ ToLowerCase(t.to) \notin {"z", "pre"}
  /\ t.input \notin {"", "0x"}

\* C24: at most MAX_MINTDOMAIN_CANDIDATES transactions enter the mint/domain
\* candidate set, receipts are requested for at most that many hashes besides
\* the native-send candidates, and an outgoing contract call met after the
\* cap was reached is output as other.
C24_CandidateCap ==
  /\ Len(mintDomainCandidates) <= MAX_MINTDOMAIN_CANDIDATES
  /\ Cardinality(DOMAIN rcpts \ nativeConfirmSet) <= MAX_MINTDOMAIN_CANDIDATES
  /\ Finished =>
       \A i \in 1..Len(externals) :
         LET t == externals[i]
             h == HashKey(t)
         IN  (h # "" /\ UnknownOutgoingCall(t) /\ h \notin Range(mintDomainCandidates))
               => (RowFor(h).kind = "native" /\ RowFor(h).category = "other")

\* the cap is reached, every receipt was obtained, and the call met after
\* the cap is output as other although its receipt on the node shows a mint
C24_Witness ==
  /\ pc = "done"
  /\ Len(mintDomainCandidates) = MAX_MINTDOMAIN_CANDIDATES
  /\ Range(mintDomainCandidates) \subseteq DOMAIN rcpts
  /\ \E i \in 1..Len(externals) :
       LET t == externals[i]
           h == HashKey(t)
       IN  /\ UnknownOutgoingCall(t) /\ h \notin Range(mintDomainCandidates)
           /\ MintLogs(h) # {}
           /\ RowFor(h).category = "other"
  /\ \E i \in 1..Len(activity) : activity[i].category = "nft_mint"

\* the time stamp of hash h was recovered from its block
RecoveredFromBlock(h) ==
  \E j \in 1..Len(externals) : HashKey(externals[j]) = h /\ externals[j].timeStamp > 0

\* C25: a record of the external feed without a time stamp, none recovered
\* from its block either, yields a row with timeMs = 0 that is present in the
\* output, and no output row has a negative timeMs.
C25_NoTimestampRowKept ==
  Finished =>
    /\ \A i \in 1..Len(explorer.txlist) :
         LET t == explorer.txlist[i]
             h == HashKey(t)
         IN  (h # "" /\ t.timeStamp = 0 /\ ~RecoveredFromBlock(h))
               => \E k \in RowsFor(h) : activity[k].timeMs = 0
    /\ \A k \in 1..Len(activity) : activity[k].timeMs >= 0

\* C26: for every contract address at most one symbol read and one name read
\* are issued; every call of get721Meta is awaiting a promise or has returned
\* a value (none has rejected); all calls for an address return the same
\* meta, which is the cached one, also when both reads failed.
C26_MetaReadOnce ==
  /\ \A a \in {"gm"} :
       Count(meta721.reads.symbol, a) <= 1 /\ Count(meta721.reads.name, a) <= 1
  /\ \A c \in DOMAIN meta721.call :
       /\ meta721.call[c].st \in {"await", "done"}
       /\ meta721.call[c].st = "done" =>
            /\ meta721.call[c].addr \in DOMAIN meta721.cache
            /\ meta721.call[c].val = meta721.cache[meta721.call[c].addr]

\* three calls for one contract, written in either letter case: the first
\* started the reads and both failed, the second awaited the same promise,
\* the third came after the reads and was answered from the cache
C26_Witness ==
  /\ DOMAIN meta721.call = MetaCallers
  /\ \A c \in MetaCallers : meta721.call[c].st = "done"
  /\ \E c1, c2, c3 \in MetaCallers :
       /\ meta721.call[c1].on = c1
       /\ c2 # c1 /\ meta721.call[c2].on = c1
       /\ meta721.call[c3].on = ""
  /\ meta721.cache["gm"] = [ symbol |-> "", name |-> "" ]
  /\ Count(meta721.reads.symbol, "gm") = 1

\* the candidate rows visited in another order, and the row then kept for h
VisitOrders == Permutations2(1..Len(AllRows))
Visited(f) == [ i \in 1..Len(AllRows) |-> AllRows[f[i]] ]
KeptOf(all, h) == all[BestIndex(all, h)]
HighestOf(all, h) ==
  { i \in 1..Len(all) :
      /\ HashKey(all[i]) = h
      /\ \A j \in 1..Len(all) : HashKey(all[j]) = h => prio(all[j]) <= prio(all[i]) }

\* C27 as stated: for every hash, every order of visiting the candidate rows
\* keeps the row that the order of the program keeps.
C27_Original ==
  pc = "stats" =>
    \A f \in VisitOrders : \A h \in LowerHashes :
      CandidatesOf(h) # {} => KeptOf(Visited(f), h) = RowFor(h)

\* C27 amended: the row kept is the first visited among the rows of the
\* highest priority of the hash; it is the same for every order whenever
\* one row alone has the highest priority, which is so whenever a native row
\* exists for the hash or the ERC-721 row is a mint.
C27_OrderFreeUnlessTie ==
  pc = "stats" =>
    \A f \in VisitOrders : \A h \in LowerHashes :
      CandidatesOf(h) # {} =>
        LET all == Visited(f)
            top == HighestOf(all, h)
        IN  /\ KeptOf(all, h) = all[CHOOSE i \in top : \A j \in top : i <= j]
            /\ RowFor(h) \in { all[i] : i \in top }
            /\ ((\E c \in CandidatesOf(h) :
                    c.kind = "native" \/ (c.kind = "token" /\ c.category = "nft_mint"))
                  => KeptOf(all, h) = RowFor(h))

\* a hash without native row, in the ERC-20 feed and as a plain transfer in
\* the ERC-721 feed: the program keeps the ERC-20 row, another order the
\* ERC-721 row
C27_Witness ==
  /\ pc = "stats"
  /\ RowsFor("h1") # {}
  /\ RowFor("h1").standard = "erc20"
  /\ \E f \in VisitOrders : KeptOf(Visited(f), "h1").standard = "erc721"
  /\ \E c \in CandidatesOf("h1") : c.kind = "internal"

\* the ERC-721 list held by buildActivity shows h as a mint to the user
Feed721Mint(h) ==
  \E k \in 1..Len(erc721) : HashKey(erc721[k]) = h /\ IsMintToUser(erc721[k], addr)
NativeRowsOf(h) == { j \in 1..Len(nativeRows) : HashKey(nativeRows[j]) = h }

\* C28: a token row of category nft_mint is in the output only for a hash
\* without native row; a native row whose hash the ERC-721 list shows as a
\* mint to the user has priority 90 or more and is the row kept.
C28_TokenMintOnlyWithoutNative ==
  Finished =>
    /\ \A i \in 1..Len(activity) :
         (activity[i].kind = "token" /\ activity[i].category = "nft_mint")
           => NativeRowsOf(HashKey(activity[i])) = {}
    /\ \A j \in 1..Len(nativeRows) :
         LET h == HashKey(nativeRows[j])
         IN  (h # "" /\ Feed721Mint(h))
               => (prio(nativeRows[j]) >= 90 /\ RowFor(h) = nativeRows[j])

\* both cases in one output: a hinted native row of priority 90 kept for one
\* hash, a token nft_mint row kept for a hash that could not be hydrated
C28_Witness ==
  /\ Finished
  /\ \E j \in 1..Len(nativeRows) :
       /\ Feed721Mint(HashKey(nativeRows[j]))
       /\ nativeRows[j].category = "nft_mint"
       /\ RowFor(HashKey(nativeRows[j])) = nativeRows[j]
  /\ \E i \in 1..Len(activity) :
       activity[i].kind = "token" /\ activity[i].category = "nft_mint"

\* the requests made and the budget stay within the absolute cap
PageBudgetRespected ==
  pager.requests <= AbsMaxPages /\ pager.maxPages <= AbsMaxPages
\* the budget changes only from a value below the cap, by the step, up to
\* the cap
BudgetGrowsBelowCap ==
  pager'.maxPages # pager.maxPages =>
    /\ pager.maxPages < AbsMaxPages
    /\ pager'.maxPages = Min2(AbsMaxPages, pager.maxPages + MaxPagesStep)
\* why the loop was left
StoppedAtCap ==
  /\ pager.page > pager.maxPages /\ pager.maxPages = AbsMaxPages
  /\ pager.requests = pager.page - 1 /\ pager.failedAt = 0
StoppedEarlier ==
  LET arr == pageOf(pager.feed, pager.page, PageSize)
  IN  /\ pager.requests = pager.page
      /\ \/ pager.failedAt = pager.page
         \/ Len(arr) = 0
         \/ Len(arr) < PageSize
         \/ oldestOnPage(arr) <= pager.startTs

\* C29: fetchPagedAccount ends for every feed and every failure of a page;
\* it requests at most AbsMaxPages pages, its budget grows only while below
\* that cap, and it ends either at the cap or on an empty, short, failed or
\* old-enough page.
C29_PagingTerminates ==
  /\ []PageBudgetRespected
  /\ [][BudgetGrowsBelowCap]_vars
  /\ [](pager.st = "done" => (StoppedAtCap \/ StoppedEarlier))
  /\ <>(pager.st = "done")

\* a window that starts after 0: the budget grew from MaxPages to the cap
\* and the loop was left there, every page full and answered
C29_Witness ==
  /\ pager.st = "done" /\ StoppedAtCap /\ pager.startTs > 0
  /\ pager.requests = AbsMaxPages /\ MaxPages < AbsMaxPages

\* tasks of the limiter by state
StateOf(i) == IF IdOf(i) \in DOMAIN task THEN task[IdOf(i)].st ELSE "none"
StartedTask(i) == StateOf(i) \notin {"none", "queued"}
HoldsSlot(id) == task[id].st \in {"rpc", "returned", "rejected"}
\* tasks start in the order of their submission
StartsInFifoOrder ==
  \A i, j \in 1..MaxTasks : (i < j /\ StartedTask(j)) => StartedTask(i)
\* a slot is held from the start of a task until its callback has run,
\* whether the task resolved or rejected
SlotsMatchActive ==
  /\ active = Cardinality({ id \in DOMAIN task : HoldsSlot(id) })
  /\ active <= RECEIPT_CONCURRENCY
  /\ (queue # <<>> => active = RECEIPT_CONCURRENCY)
  /\ ((\A id \in DOMAIN task : task[id].st = "settled") => active = 0)

====
